---- MODULE Spec2Model ----
(***************************************************************************)
(* Model of the disco5 6502/NES emulator core: the CPU executor of         *)
(* src/src/computer/cpu.rs, the decoder of src/src/computer/cpu_structs.rs *)
(* and the memory-mapped bus of src/src/computer/bus.rs.                   *)
(*                                                                         *)
(* The machine state is the CPU register file, the bus (64 KiB byte array  *)
(* plus the PPU registers it redirects to) and the failure outcome of a    *)
(* Rust panic.  Arrays that the program creates zero-filled are kept as    *)
(* functions over the addresses that hold a non-zero byte.                 *)
(***************************************************************************)
EXTENDS Integers, Sequences, FiniteSets, TLC

VARIABLES
    cpu,              \* CPU struct: a, x, y, sp, pc, p, clock
    bus,              \* Bus struct: bytes and ppu
    fail,             \* "none", or the panic that ended the program
    overflow_checks,  \* build profile: TRUE = arithmetic overflow panics
    inp,              \* the inputs the scenario was started with
    last              \* the last operation performed and what it returned

vars == <<cpu, bus, fail, overflow_checks, inp, last>>

-----------------------------------------------------------------------------
(* Widths and sizes of the program.                                        *)

U8 == 256
U16 == 65536
CPU_MEMORY_SIZE == 65536
PPU_MEMORY_SIZE == 16384
STACK_PAGE == 256

Byte == 0 .. (U8 - 1)
Word == 0 .. (U16 - 1)

-----------------------------------------------------------------------------
(* u8 bit operations.                                                      *)

Bit(v, i) == (v \div (2 ^ i)) % 2

BitAnd(x, y) ==
    Bit(x,0)*Bit(y,0) + 2*Bit(x,1)*Bit(y,1) + 4*Bit(x,2)*Bit(y,2)
    + 8*Bit(x,3)*Bit(y,3) + 16*Bit(x,4)*Bit(y,4) + 32*Bit(x,5)*Bit(y,5)
    + 64*Bit(x,6)*Bit(y,6) + 128*Bit(x,7)*Bit(y,7)

BitXor(x, y) ==
    ((Bit(x,0)+Bit(y,0)) % 2) + 2*((Bit(x,1)+Bit(y,1)) % 2)
    + 4*((Bit(x,2)+Bit(y,2)) % 2) + 8*((Bit(x,3)+Bit(y,3)) % 2)
    + 16*((Bit(x,4)+Bit(y,4)) % 2) + 32*((Bit(x,5)+Bit(y,5)) % 2)
    + 64*((Bit(x,6)+Bit(y,6)) % 2) + 128*((Bit(x,7)+Bit(y,7)) % 2)

BitOr(x, y) == x + y - BitAnd(x, y)

BitNot(x) == (U8 - 1) - x

Shl8(x) == (2 * x) % U8

Shr8(x) == x \div 2

WrappingAdd8(x, y) == (x + y) % U8

WrappingSub8(x, y) == (x - y + U8) % U8

WrappingAdd16(x, y) == (x + y) % U16

HiPage(address) == (address \div 256) * 256

-----------------------------------------------------------------------------
(* Zero-initialised byte arrays.                                           *)

Get(arr, i) == IF i \in DOMAIN arr THEN arr[i] ELSE 0

Put(arr, i, v) ==
    IF v = 0
    THEN [k \in (DOMAIN arr) \ {i} |-> arr[k]]
    ELSE [k \in (DOMAIN arr) \cup {i} |-> IF k = i THEN v ELSE arr[k]]

EmptyArr == [k \in {} |-> 0]

-----------------------------------------------------------------------------
(* StatusRegister.                                                         *)

N == 128
V == 64
B == 16
D == 8
I == 4
Z == 2
C == 1

StatusRegisterDefault ==
    [n |-> FALSE, v |-> FALSE, b |-> FALSE, d |-> FALSE,
     i |-> FALSE, z |-> FALSE, c |-> FALSE]

StatusRegisters ==
    [n : BOOLEAN, v : BOOLEAN, b : BOOLEAN, d : BOOLEAN,
     i : BOOLEAN, z : BOOLEAN, c : BOOLEAN]

(* faulty variant of to_byte: the D flag is packed under the I mask        *)
to_byte_d_as_i(p) ==
    LET b0 == 32
        b1 == IF p.n THEN BitOr(b0, N) ELSE b0
        b2 == IF p.v THEN BitOr(b1, V) ELSE b1
        b3 == IF p.b THEN BitOr(b2, B) ELSE b2
        b4 == IF p.d THEN BitOr(b3, I) ELSE b3
        b5 == IF p.i THEN BitOr(b4, I) ELSE b4
        b6 == IF p.z THEN BitOr(b5, Z) ELSE b5
        b7 == IF p.c THEN BitOr(b6, C) ELSE b6
    IN  b7

to_byte(p) ==
    LET b0 == 32
        b1 == IF p.n THEN BitOr(b0, N) ELSE b0
        b2 == IF p.v THEN BitOr(b1, V) ELSE b1
        b3 == IF p.b THEN BitOr(b2, B) ELSE b2
        b4 == IF p.d THEN BitOr(b3, D) ELSE b3
        b5 == IF p.i THEN BitOr(b4, I) ELSE b4
        b6 == IF p.z THEN BitOr(b5, Z) ELSE b5
        b7 == IF p.c THEN BitOr(b6, C) ELSE b6
    IN  b7

set_from_byte(byte) ==
    [n |-> BitAnd(byte, N) = N,
     v |-> BitAnd(byte, V) = V,
     b |-> BitAnd(byte, B) = B,
     d |-> BitAnd(byte, D) = D,
     i |-> BitAnd(byte, I) = I,
     z |-> BitAnd(byte, Z) = Z,
     c |-> BitAnd(byte, C) = C]

-----------------------------------------------------------------------------
(* PPU registers and the bus.                                              *)

PPUDefault ==
    [ppu_ctrl |-> 0, ppu_mask |-> 0, ppu_status |-> 128, oam_addr |-> 0,
     oam_data |-> 0, ppu_scroll |-> 0, ppu_addr_low |-> 0,
     ppu_addr_high |-> 0, ppu_addr_received_first_write |-> FALSE,
     oam_dma |-> 0, memory |-> EmptyArr, oam |-> EmptyArr]

BusDefault == [bytes |-> EmptyArr, ppu |-> PPUDefault]

VRAM_INCR == 4

PpuAddr(b) == b.ppu.ppu_addr_high * 256 + b.ppu.ppu_addr_low

(* faulty variant of BusIndex: plain addresses are folded into 2 KiB        *)
BusIndex_folded(b, index) ==
    CASE index = 8194 -> [ok |-> TRUE, v |-> b.ppu.ppu_status]
      [] index = 8196 -> [ok |-> TRUE, v |-> b.ppu.oam_data]
      [] index = 8199 ->
            IF PpuAddr(b) < PPU_MEMORY_SIZE
            THEN [ok |-> TRUE, v |-> Get(b.ppu.memory, PpuAddr(b))]
            ELSE [ok |-> FALSE, v |-> 0]
      [] OTHER ->
            IF index < CPU_MEMORY_SIZE
            THEN [ok |-> TRUE, v |-> Get(b.bytes, index % 2048)]
            ELSE [ok |-> FALSE, v |-> 0]

(* faulty variant of BusIndex: $2002 is read from the plain bytes          *)
BusIndex_status_plain(b, index) ==
    CASE index = 8196 -> [ok |-> TRUE, v |-> b.ppu.oam_data]
      [] index = 8199 ->
            IF PpuAddr(b) < PPU_MEMORY_SIZE
            THEN [ok |-> TRUE, v |-> Get(b.ppu.memory, PpuAddr(b))]
            ELSE [ok |-> FALSE, v |-> 0]
      [] OTHER ->
            IF index < CPU_MEMORY_SIZE
            THEN [ok |-> TRUE, v |-> Get(b.bytes, index)]
            ELSE [ok |-> FALSE, v |-> 0]

(* Index<usize> for Bus: ok = FALSE is the index-out-of-bounds panic.      *)
BusIndex(b, index) ==
    CASE index = 8194 -> [ok |-> TRUE, v |-> b.ppu.ppu_status]
      [] index = 8196 -> [ok |-> TRUE, v |-> b.ppu.oam_data]
      [] index = 8199 ->
            IF PpuAddr(b) < PPU_MEMORY_SIZE
            THEN [ok |-> TRUE, v |-> Get(b.ppu.memory, PpuAddr(b))]
            ELSE [ok |-> FALSE, v |-> 0]
      [] OTHER ->
            IF index < CPU_MEMORY_SIZE
            THEN [ok |-> TRUE, v |-> Get(b.bytes, index)]
            ELSE [ok |-> FALSE, v |-> 0]

(* faulty variant of BusIndexMut: the first $2006 write fills the low byte *)
BusIndexMut_low_first(b, index, val) ==
    CASE index = 8192 -> [ok |-> TRUE, bus |-> [b EXCEPT !.ppu.ppu_ctrl = val]]
      [] index = 8193 -> [ok |-> TRUE, bus |-> [b EXCEPT !.ppu.ppu_mask = val]]
      [] index = 8195 -> [ok |-> TRUE, bus |-> [b EXCEPT !.ppu.oam_addr = val]]
      [] index = 8196 -> [ok |-> TRUE, bus |-> [b EXCEPT !.ppu.oam_data = val]]
      [] index = 8197 -> [ok |-> TRUE, bus |-> [b EXCEPT !.ppu.ppu_scroll = val]]
      [] index = 8198 ->
            IF b.ppu.ppu_addr_received_first_write = FALSE
            THEN [ok |-> TRUE,
                  bus |-> [b EXCEPT !.ppu.ppu_addr_received_first_write = TRUE,
                                    !.ppu.ppu_addr_low = val]]
            ELSE [ok |-> TRUE,
                  bus |-> [b EXCEPT !.ppu.ppu_addr_received_first_write = FALSE,
                                    !.ppu.ppu_addr_high = val]]
      [] index = 8199 ->
            LET address == PpuAddr(b)
                increment == IF BitAnd(b.ppu.ppu_ctrl, VRAM_INCR) = VRAM_INCR
                             THEN 32 ELSE 1
                new_address == WrappingAdd16(address, increment)
                b1 == [b EXCEPT !.ppu.ppu_addr_low = new_address % 256,
                                !.ppu.ppu_addr_high = new_address \div 256]
            IN  IF address < PPU_MEMORY_SIZE
                THEN [ok |-> TRUE,
                      bus |-> [b1 EXCEPT !.ppu.memory = Put(@, address, val)]]
                ELSE [ok |-> FALSE, bus |-> b1]
      [] OTHER ->
            IF index < CPU_MEMORY_SIZE
            THEN [ok |-> TRUE, bus |-> [b EXCEPT !.bytes = Put(@, index, val)]]
            ELSE [ok |-> FALSE, bus |-> b]

(* faulty variant of BusIndexMut: the $2007 store goes to the address      *)
(* after the increment                                                     *)
BusIndexMut_store_after_advance(b, index, val) ==
    CASE index = 8192 -> [ok |-> TRUE, bus |-> [b EXCEPT !.ppu.ppu_ctrl = val]]
      [] index = 8193 -> [ok |-> TRUE, bus |-> [b EXCEPT !.ppu.ppu_mask = val]]
      [] index = 8195 -> [ok |-> TRUE, bus |-> [b EXCEPT !.ppu.oam_addr = val]]
      [] index = 8196 -> [ok |-> TRUE, bus |-> [b EXCEPT !.ppu.oam_data = val]]
      [] index = 8197 -> [ok |-> TRUE, bus |-> [b EXCEPT !.ppu.ppu_scroll = val]]
      [] index = 8198 ->
            IF b.ppu.ppu_addr_received_first_write = FALSE
            THEN [ok |-> TRUE,
                  bus |-> [b EXCEPT !.ppu.ppu_addr_received_first_write = TRUE,
                                    !.ppu.ppu_addr_high = val]]
            ELSE [ok |-> TRUE,
                  bus |-> [b EXCEPT !.ppu.ppu_addr_received_first_write = FALSE,
                                    !.ppu.ppu_addr_low = val]]
      [] index = 8199 ->
            LET address == PpuAddr(b)
                increment == IF BitAnd(b.ppu.ppu_ctrl, VRAM_INCR) = VRAM_INCR
                             THEN 32 ELSE 1
                new_address == WrappingAdd16(address, increment)
                b1 == [b EXCEPT !.ppu.ppu_addr_low = new_address % 256,
                                !.ppu.ppu_addr_high = new_address \div 256]
            IN  IF address < PPU_MEMORY_SIZE
                THEN [ok |-> TRUE,
                      bus |-> [b1 EXCEPT
                              !.ppu.memory = Put(@, new_address, val)]]
                ELSE [ok |-> FALSE, bus |-> b1]
      [] OTHER ->
            IF index < CPU_MEMORY_SIZE
            THEN [ok |-> TRUE, bus |-> [b EXCEPT !.bytes = Put(@, index, val)]]
            ELSE [ok |-> FALSE, bus |-> b]

(* IndexMut<usize> for Bus followed by the store of val through the        *)
(* returned reference.                                                     *)
BusIndexMut(b, index, val) ==
    CASE index = 8192 -> [ok |-> TRUE, bus |-> [b EXCEPT !.ppu.ppu_ctrl = val]]
      [] index = 8193 -> [ok |-> TRUE, bus |-> [b EXCEPT !.ppu.ppu_mask = val]]
      [] index = 8195 -> [ok |-> TRUE, bus |-> [b EXCEPT !.ppu.oam_addr = val]]
      [] index = 8196 -> [ok |-> TRUE, bus |-> [b EXCEPT !.ppu.oam_data = val]]
      [] index = 8197 -> [ok |-> TRUE, bus |-> [b EXCEPT !.ppu.ppu_scroll = val]]
      [] index = 8198 ->
            IF b.ppu.ppu_addr_received_first_write = FALSE
            THEN [ok |-> TRUE,
                  bus |-> [b EXCEPT !.ppu.ppu_addr_received_first_write = TRUE,
                                    !.ppu.ppu_addr_high = val]]
            ELSE [ok |-> TRUE,
                  bus |-> [b EXCEPT !.ppu.ppu_addr_received_first_write = FALSE,
                                    !.ppu.ppu_addr_low = val]]
      [] index = 8199 ->
            LET address == PpuAddr(b)
                increment == IF BitAnd(b.ppu.ppu_ctrl, VRAM_INCR) = VRAM_INCR
                             THEN 32 ELSE 1
                new_address == WrappingAdd16(address, increment)
                b1 == [b EXCEPT !.ppu.ppu_addr_low = new_address % 256,
                                !.ppu.ppu_addr_high = new_address \div 256]
            IN  IF address < PPU_MEMORY_SIZE
                THEN [ok |-> TRUE,
                      bus |-> [b1 EXCEPT !.ppu.memory = Put(@, address, val)]]
                ELSE [ok |-> FALSE, bus |-> b1]
      [] OTHER ->
            IF index < CPU_MEMORY_SIZE
            THEN [ok |-> TRUE, bus |-> [b EXCEPT !.bytes = Put(@, index, val)]]
            ELSE [ok |-> FALSE, bus |-> b]

-----------------------------------------------------------------------------
(* The machine threaded through the executor: m = [cpu, bus, fail].  A     *)
(* panic freezes the state it happened in; every later step of the same    *)
(* call sees fail # "none" and does nothing.                               *)

StatusNone == "none"
PanicOverflow == "attempt to add with overflow"
PanicUnderflow == "attempt to subtract with overflow"
PanicIndex == "index out of bounds"
PanicMode == "Attempted to execute instruction with invalid AddressingMode"
PanicResolve == "Attempted to fetch an AddressingMode that is intended to be handled on a per instruction basis"
PanicUndocumented == "Attempted to execute undocumented instruction"

Ok(m) == m.fail = StatusNone

Panic(m, msg) == IF Ok(m) THEN [m EXCEPT !.fail = msg] ELSE m

SetCpu(m, c) == IF Ok(m) THEN [m EXCEPT !.cpu = c] ELSE m

CPUDefault ==
    [a |-> 0, x |-> 0, y |-> 0, sp |-> 0, pc |-> 0,
     p |-> StatusRegisterDefault, clock |-> 0]

(* `+` and `-` on u16: a panic when the build checks overflow, a wrap      *)
(* otherwise.                                                              *)
Add16(m, x, y) ==
    IF x + y >= U16
    THEN IF overflow_checks
         THEN [m |-> Panic(m, PanicOverflow), v |-> 0]
         ELSE [m |-> m, v |-> (x + y) % U16]
    ELSE [m |-> m, v |-> x + y]

Sub16(m, x, y) ==
    IF x - y < 0
    THEN IF overflow_checks
         THEN [m |-> Panic(m, PanicUnderflow), v |-> 0]
         ELSE [m |-> m, v |-> (x - y + U16) % U16]
    ELSE [m |-> m, v |-> x - y]

MRead(m, index) ==
    LET read(r) == IF r.ok THEN [m |-> m, v |-> r.v]
                   ELSE [m |-> Panic(m, PanicIndex), v |-> 0]
    IN  IF ~Ok(m) THEN [m |-> m, v |-> 0] ELSE read(BusIndex(m.bus, index))

MWrite(m, index, val) ==
    LET written(r) == IF r.ok THEN [m EXCEPT !.bus = r.bus]
                      ELSE [m EXCEPT !.bus = r.bus, !.fail = PanicIndex]
    IN  IF ~Ok(m) THEN m ELSE written(BusIndexMut(m.bus, index, val))

(* faulty variant of tick: the clock is set to the count, not advanced      *)
tick_assign(m, num) == IF Ok(m) THEN [m EXCEPT !.cpu.clock = num] ELSE m

tick(m, num) == IF Ok(m) THEN [m EXCEPT !.cpu.clock = @ + num] ELSE m

step_pc(m) ==
    LET stepped(r) == IF Ok(r.m) THEN [m EXCEPT !.cpu.pc = r.v] ELSE r.m
    IN  stepped(Add16(m, m.cpu.pc, 1))

fetch_instruction(m) ==
    LET index == m.cpu.pc
        m1 == step_pc(m)
    IN  MRead(m1, index)

AddrOf(hi, lo) == hi * 256 + lo

resolve_address_fetch(m, am) ==
    CASE am \in {"Accumulator", "Implied", "Immediate", "Relative"} ->
            [m |-> Panic(m, PanicResolve), address |-> 0, crossed |-> FALSE]
      [] am = "Absolute" ->
            LET with_hi(lo, hi) ==
                    [m |-> hi.m, address |-> AddrOf(hi.v, lo.v),
                     crossed |-> FALSE]
                with_lo(lo) == with_hi(lo, fetch_instruction(lo.m))
            IN  with_lo(fetch_instruction(m))
      [] am = "AbsoluteX" ->
            LET with_hi(lo, hi) ==
                    LET address == AddrOf(hi.v, lo.v)
                        address_plus_x == WrappingAdd16(address, m.cpu.x)
                    IN  [m |-> hi.m, address |-> address_plus_x,
                         crossed |-> HiPage(address) # HiPage(address_plus_x)]
                with_lo(lo) == with_hi(lo, fetch_instruction(lo.m))
            IN  with_lo(fetch_instruction(m))
      [] am = "AbsoluteY" ->
            LET with_hi(lo, hi) ==
                    LET address == AddrOf(hi.v, lo.v)
                        address_plus_y == WrappingAdd16(address, m.cpu.y)
                    IN  [m |-> hi.m, address |-> address_plus_y,
                         crossed |-> HiPage(address) # HiPage(address_plus_y)]
                with_lo(lo) == with_hi(lo, fetch_instruction(lo.m))
            IN  with_lo(fetch_instruction(m))
      [] am = "Indirect" ->
            LET with_hi2(lo2, hi2) ==
                    [m |-> hi2.m, address |-> AddrOf(hi2.v, lo2.v),
                     crossed |-> FALSE]
                with_lo2(address, lo2) ==
                    LET address2 == IF address % 256 = 255
                                    THEN HiPage(address) ELSE address + 1
                    IN  with_hi2(lo2, MRead(lo2.m, address2))
                with_hi(lo, hi) ==
                    with_lo2(AddrOf(hi.v, lo.v), MRead(hi.m, AddrOf(hi.v, lo.v)))
                with_lo(lo) == with_hi(lo, fetch_instruction(lo.m))
            IN  with_lo(fetch_instruction(m))
      [] am = "IndirectX" ->
            LET with_hi(lo, hi) ==
                    [m |-> hi.m, address |-> AddrOf(hi.v, lo.v),
                     crossed |-> FALSE]
                with_lo(address, lo) ==
                    with_hi(lo, MRead(lo.m, (address + 1) % 256))
                with_zpg(zpg) ==
                    with_lo(WrappingAdd8(zpg.v, m.cpu.x),
                            MRead(zpg.m, WrappingAdd8(zpg.v, m.cpu.x)))
            IN  with_zpg(fetch_instruction(m))
      [] am = "IndirectY" ->
            LET with_hi(lo, hi) ==
                    LET base == AddrOf(hi.v, lo.v)
                        address_plus_y == WrappingAdd16(base, m.cpu.y)
                    IN  [m |-> hi.m, address |-> address_plus_y,
                         crossed |-> HiPage(base) # HiPage(address_plus_y)]
                with_lo(address, lo) ==
                    with_hi(lo, MRead(lo.m, WrappingAdd16(address, 1)))
                with_zpg(zpg) == with_lo(zpg.v, MRead(zpg.m, zpg.v))
            IN  with_zpg(fetch_instruction(m))
      [] am = "ZeroPage" ->
            LET with_lo(lo) ==
                    [m |-> lo.m, address |-> lo.v, crossed |-> FALSE]
            IN  with_lo(fetch_instruction(m))
      [] am = "ZeroPageX" ->
            LET with_zpg(zpg) ==
                    [m |-> zpg.m, address |-> WrappingAdd8(zpg.v, m.cpu.x),
                     crossed |-> FALSE]
            IN  with_zpg(fetch_instruction(m))
      [] am = "ZeroPageY" ->
            LET with_zpg(zpg) ==
                    [m |-> zpg.m, address |-> WrappingAdd8(zpg.v, m.cpu.y),
                     crossed |-> FALSE]
            IN  with_zpg(fetch_instruction(m))

set_status_nz(c, test_val) ==
    [c EXCEPT !.p.z = (test_val = 0),
              !.p.n = (BitAnd(test_val, 128) = 128)]

(* faulty variant of adc_logic: with the D flag set the low digit of the    *)
(* sum is adjusted to decimal                                              *)
adc_logic_decimal(c, addend_1) ==
    LET addend_2 == c.a
        carry == IF c.p.c = TRUE THEN 1 ELSE 0
        binary == WrappingAdd8(WrappingAdd8(addend_1, addend_2), carry)
        adjust == c.p.d = TRUE
                  /\ (addend_1 % 16) + (addend_2 % 16) + carry > 9
        result == IF adjust THEN WrappingAdd8(binary, 6) ELSE binary
        c1 == [c EXCEPT !.a = result,
                        !.p.c = (addend_1 + addend_2 + carry > 255),
                        !.p.v = ~(BitAnd(BitAnd(BitXor(addend_1, result),
                                                BitXor(addend_2, result)),
                                         128) = 0)]
    IN  set_status_nz(c1, c1.a)

(* faulty variant of adc_logic: the carry flag is left out of the sum       *)
adc_logic_no_carry_in(c, addend_1) ==
    LET addend_2 == c.a
        carry == 0
        result == WrappingAdd8(WrappingAdd8(addend_1, addend_2), carry)
        c1 == [c EXCEPT !.a = result,
                        !.p.c = (addend_1 + addend_2 + carry > 255),
                        !.p.v = ~(BitAnd(BitAnd(BitXor(addend_1, result),
                                                BitXor(addend_2, result)),
                                         128) = 0)]
    IN  set_status_nz(c1, c1.a)

adc_logic(c, addend_1) ==
    LET addend_2 == c.a
        carry == IF c.p.c = TRUE THEN 1 ELSE 0
        result == WrappingAdd8(WrappingAdd8(addend_1, addend_2), carry)
        c1 == [c EXCEPT !.a = result,
                        !.p.c = (addend_1 + addend_2 + carry > 255),
                        !.p.v = ~(BitAnd(BitAnd(BitXor(addend_1, result),
                                                BitXor(addend_2, result)),
                                         128) = 0)]
    IN  set_status_nz(c1, c1.a)

(* returns the machine and whether or not a page was crossed               *)
(* faulty variant of branch_if: the branch is taken when the condition is   *)
(* false                                                                   *)
branch_if_negated(m, condition) ==
    LET with_update(f, pc, upd) ==
            [m |-> IF Ok(upd.m) THEN [upd.m EXCEPT !.cpu.pc = upd.v]
                   ELSE upd.m,
             crossed |-> HiPage(pc) # HiPage(upd.v)]
        with_operand(f) ==
            LET raw == f.v
                negative == raw >= 128
                offset == IF negative THEN 256 - raw ELSE raw
                pc == f.m.cpu.pc
            IN  with_update(f, pc,
                    IF ~condition /\ negative = FALSE
                    THEN Add16(f.m, pc, offset)
                    ELSE IF ~condition /\ negative = TRUE
                    THEN Sub16(f.m, pc, offset)
                    ELSE [m |-> f.m, v |-> pc])
    IN  with_operand(fetch_instruction(m))

branch_if(m, condition) ==
    LET with_update(f, pc, upd) ==
            [m |-> IF Ok(upd.m) THEN [upd.m EXCEPT !.cpu.pc = upd.v]
                   ELSE upd.m,
             crossed |-> HiPage(pc) # HiPage(upd.v)]
        with_operand(f) ==
            LET raw == f.v
                negative == raw >= 128
                offset == IF negative THEN 256 - raw ELSE raw
                pc == f.m.cpu.pc
            IN  with_update(f, pc,
                    IF condition /\ negative = FALSE
                    THEN Add16(f.m, pc, offset)
                    ELSE IF condition /\ negative = TRUE
                    THEN Sub16(f.m, pc, offset)
                    ELSE [m |-> f.m, v |-> pc])
    IN  with_operand(fetch_instruction(m))

push_stack(m, byte) ==
    LET pushed(m1) ==
            IF Ok(m1) THEN [m1 EXCEPT !.cpu.sp = WrappingSub8(@, 1)] ELSE m1
    IN  pushed(MWrite(m, STACK_PAGE + m.cpu.sp, byte))

(* faulty variant of pop_stack: the byte is read before sp is stepped       *)
pop_stack_read_first(m) ==
    LET popped(r) ==
            [m |-> IF Ok(r.m) THEN [r.m EXCEPT !.cpu.sp = WrappingAdd8(@, 1)]
                   ELSE r.m,
             v |-> r.v]
    IN  popped(MRead(m, STACK_PAGE + m.cpu.sp))

pop_stack(m) ==
    LET stepped(m1) == MRead(m1, STACK_PAGE + m1.cpu.sp)
    IN  stepped(IF Ok(m) THEN [m EXCEPT !.cpu.sp = WrappingAdd8(@, 1)] ELSE m)

-----------------------------------------------------------------------------
(* process_instruction, one definition per match arm.  Each arm returns    *)
(* the machine and the ticks it adds to minimum_ticks.                     *)

ModesAcc == {"Absolute", "AbsoluteX", "AbsoluteY", "IndirectX", "IndirectY",
             "ZeroPage", "ZeroPageX"}
ModesRmw == {"Absolute", "AbsoluteX", "ZeroPage", "ZeroPageX"}
ModesBit == {"Absolute", "ZeroPage"}
ModesLdx == {"Absolute", "AbsoluteY", "ZeroPage", "ZeroPageY"}
ModesLdy == {"Absolute", "AbsoluteX", "ZeroPage", "ZeroPageX"}
(* faulty variant of ModesStx: the arm of STY copied to STX                *)
ModesStx_as_sty == {"Absolute", "ZeroPage", "ZeroPageX"}
ModesStx == {"Absolute", "ZeroPage", "ZeroPageY"}
ModesSty == {"Absolute", "ZeroPage", "ZeroPageX"}
ModesJmp == {"Absolute", "Indirect"}

Tk(crossed) == IF crossed = TRUE THEN 1 ELSE 0

InvalidMode(m) == [m |-> Panic(m, PanicMode), t |-> 0]

(* faulty variant of Operand: a crossed page adds no tick                   *)
Operand_no_cross(m, am, modes, immediate) ==
    LET read(r, v) == [m |-> v.m, v |-> v.v, t |-> 0, ok |-> TRUE]
        resolved(r) == read(r, MRead(r.m, r.address))
        fetched(f) == [m |-> f.m, v |-> f.v, t |-> 0, ok |-> TRUE]
    IN  IF am \in modes
        THEN resolved(resolve_address_fetch(m, am))
        ELSE IF immediate /\ am = "Immediate"
        THEN fetched(fetch_instruction(m))
        ELSE [m |-> Panic(m, PanicMode), v |-> 0, t |-> 0, ok |-> FALSE]

(* the operand of a reading instruction: resolved through memory for the   *)
(* modes of the first arm, fetched for Immediate                           *)
Operand(m, am, modes, immediate) ==
    LET read(r, v) == [m |-> v.m, v |-> v.v, t |-> Tk(r.crossed), ok |-> TRUE]
        resolved(r) == read(r, MRead(r.m, r.address))
        fetched(f) == [m |-> f.m, v |-> f.v, t |-> 0, ok |-> TRUE]
    IN  IF am \in modes
        THEN resolved(resolve_address_fetch(m, am))
        ELSE IF immediate /\ am = "Immediate"
        THEN fetched(fetch_instruction(m))
        ELSE [m |-> Panic(m, PanicMode), v |-> 0, t |-> 0, ok |-> FALSE]

ADC(m, am) ==
    LET execute(o) == [m |-> SetCpu(o.m, adc_logic(o.m.cpu, o.v)), t |-> o.t]
    IN  execute(Operand(m, am, ModesAcc, TRUE))

AND(m, am) ==
    LET execute(o) ==
            LET a1 == BitAnd(o.m.cpu.a, o.v)
            IN  [m |-> SetCpu(o.m, set_status_nz([o.m.cpu EXCEPT !.a = a1], a1)),
                 t |-> o.t]
    IN  execute(Operand(m, am, ModesAcc, TRUE))

(* the value the shift arms store, computed from self.a and the old carry  *)
ShiftOf(kind, a, tail) ==
    CASE kind = "ASL" -> Shl8(a)
      [] kind = "LSR" -> Shr8(a)
      [] kind = "ROL" -> IF tail = TRUE THEN BitOr(Shl8(a), 1) ELSE Shl8(a)
      [] kind = "ROR" -> IF tail = TRUE THEN BitOr(Shr8(a), 128) ELSE Shr8(a)

(* the four shift/rotate instructions share their shape: memory arm,       *)
(* Accumulator arm, set_status_nz on shift_result                          *)
Shift(m, am, carry_mask, kind) ==
    LET stored(r, shift_result, m2) ==
            [m |-> SetCpu(m2, set_status_nz(m2.cpu, shift_result)),
             t |-> Tk(r.crossed)]
        read(r, value) ==
            LET tail == value.m.cpu.p.c
                shift_result == ShiftOf(kind, value.m.cpu.a, tail)
            IN  stored(r, shift_result,
                    MWrite(SetCpu(value.m, [value.m.cpu EXCEPT
                               !.p.c = (BitAnd(value.v, carry_mask)
                                            = carry_mask)]),
                           r.address, shift_result))
        resolved(r) == read(r, MRead(r.m, r.address))
    IN  IF am \in ModesRmw
        THEN resolved(resolve_address_fetch(m, am))
        ELSE IF am = "Accumulator"
        THEN LET tail == m.cpu.p.c
                 shift_result == ShiftOf(kind, m.cpu.a, tail)
                 c1 == [m.cpu EXCEPT
                            !.p.c = (BitAnd(m.cpu.a, carry_mask) = carry_mask),
                            !.a = shift_result]
             IN  [m |-> SetCpu(m, set_status_nz(c1, shift_result)), t |-> 0]
        ELSE InvalidMode(m)

ASL(m, am) == Shift(m, am, 128, "ASL")
LSR(m, am) == Shift(m, am, 1, "LSR")
ROL(m, am) == Shift(m, am, 128, "ROL")
ROR(m, am) == Shift(m, am, 1, "ROR")

(* faulty variant of Branch: no tick is added for a crossed page             *)
Branch_no_cross(m, am, condition) ==
    LET branched(r) == [m |-> r.m, t |-> Tk(condition)]
    IN  IF am = "Relative" THEN branched(branch_if(m, condition))
        ELSE InvalidMode(m)

Branch(m, am, condition) ==
    LET branched(r) == [m |-> r.m, t |-> Tk(r.crossed) + Tk(condition)]
    IN  IF am = "Relative" THEN branched(branch_if(m, condition))
        ELSE InvalidMode(m)

BCC(m, am) == Branch(m, am, m.cpu.p.c = FALSE)
BCS(m, am) == Branch(m, am, m.cpu.p.c = TRUE)
BEQ(m, am) == Branch(m, am, m.cpu.p.z = TRUE)
BMI(m, am) == Branch(m, am, m.cpu.p.n = TRUE)
BNE(m, am) == Branch(m, am, m.cpu.p.z = FALSE)
BPL(m, am) == Branch(m, am, m.cpu.p.n = FALSE)
BVC(m, am) == Branch(m, am, m.cpu.p.v = FALSE)
BVS(m, am) == Branch(m, am, m.cpu.p.v = TRUE)

BIT(m, am) ==
    LET execute(o) ==
            LET result == BitAnd(o.m.cpu.a, o.v)
            IN  [m |-> SetCpu(o.m, [o.m.cpu EXCEPT
                            !.p.v = (BitAnd(o.v, 64) = 64),
                            !.p.n = (BitAnd(o.v, 128) = 128),
                            !.p.z = (result = 0)]),
                 t |-> o.t]
    IN  execute(Operand(m, am, ModesBit, FALSE))

(* faulty variant of BRK: the interrupt disable flag is set before the      *)
(* status byte is pushed                                                   *)
BRK_i_before_push(m, am) ==
    LET with_vhi(vlo, vhi) ==
            [m |-> SetCpu(vhi.m, [vhi.m.cpu EXCEPT
                        !.pc = AddrOf(vhi.v, vlo.v), !.p.i = TRUE]),
             t |-> 0]
        with_vlo(vlo) == with_vhi(vlo, MRead(vlo.m, 65535))
        with_m3(m3) == with_vlo(MRead(m3, 65534))
        with_m2(m2) ==
            with_m3(push_stack(m2, BitOr(to_byte([m2.cpu.p EXCEPT !.i = TRUE]),
                                         16)))
        with_m1(lo, m1) == with_m2(push_stack(m1, lo))
        with_pc(to_be_pushed) ==
            LET lo == to_be_pushed.v % 256
                hi == to_be_pushed.v \div 256
            IN  with_m1(lo, push_stack(to_be_pushed.m, hi))
    IN  IF am = "Implied" THEN with_pc(Add16(m, m.cpu.pc, 1))
        ELSE InvalidMode(m)

BRK(m, am) ==
    LET with_vhi(vlo, vhi) ==
            [m |-> SetCpu(vhi.m, [vhi.m.cpu EXCEPT
                        !.pc = AddrOf(vhi.v, vlo.v), !.p.i = TRUE]),
             t |-> 0]
        with_vlo(vlo) == with_vhi(vlo, MRead(vlo.m, 65535))
        with_m3(m3) == with_vlo(MRead(m3, 65534))
        with_m2(m2) == with_m3(push_stack(m2, BitOr(to_byte(m2.cpu.p), 16)))
        with_m1(lo, m1) == with_m2(push_stack(m1, lo))
        with_pc(to_be_pushed) ==
            LET lo == to_be_pushed.v % 256
                hi == to_be_pushed.v \div 256
            IN  with_m1(lo, push_stack(to_be_pushed.m, hi))
    IN  IF am = "Implied" THEN with_pc(Add16(m, m.cpu.pc, 1))
        ELSE InvalidMode(m)

(* the instructions whose only legal mode is Implied and that touch only   *)
(* the register file                                                       *)
Implied(m, am, c) ==
    IF am = "Implied" THEN [m |-> SetCpu(m, c), t |-> 0] ELSE InvalidMode(m)

CLC(m, am) == Implied(m, am, [m.cpu EXCEPT !.p.c = FALSE])
CLD(m, am) == Implied(m, am, [m.cpu EXCEPT !.p.d = FALSE])
CLI(m, am) == Implied(m, am, [m.cpu EXCEPT !.p.i = FALSE])
CLV(m, am) == Implied(m, am, [m.cpu EXCEPT !.p.v = FALSE])
SEC(m, am) == Implied(m, am, [m.cpu EXCEPT !.p.c = TRUE])
SED(m, am) == Implied(m, am, [m.cpu EXCEPT !.p.d = TRUE])
SEI(m, am) == Implied(m, am, [m.cpu EXCEPT !.p.i = TRUE])
NOP(m, am) == Implied(m, am, m.cpu)

(* faulty variant of Compare: carry on strictly greater                    *)
Compare_strict(m, am, modes, reg) ==
    LET execute(o) ==
            LET test_val == o.v
            IN  [m |-> SetCpu(o.m, set_status_nz(
                            [o.m.cpu EXCEPT !.p.c = (reg > test_val)],
                            WrappingSub8(reg, test_val))),
                 t |-> o.t]
    IN  execute(Operand(m, am, modes, TRUE))

Compare(m, am, modes, reg) ==
    LET execute(o) ==
            LET test_val == o.v
            IN  [m |-> SetCpu(o.m, set_status_nz(
                            [o.m.cpu EXCEPT !.p.c = (reg >= test_val)],
                            WrappingSub8(reg, test_val))),
                 t |-> o.t]
    IN  execute(Operand(m, am, modes, TRUE))

CMP(m, am) == Compare(m, am, ModesAcc, m.cpu.a)
CPX(m, am) == Compare(m, am, ModesBit, m.cpu.x)
CPY(m, am) == Compare(m, am, ModesBit, m.cpu.y)

(* DEC and INC: read, modify, write back, set_status_nz                    *)
Modify(m, am, delta) ==
    LET stored(r, to_modify, m1) ==
            [m |-> SetCpu(m1, set_status_nz(m1.cpu, to_modify)),
             t |-> Tk(r.crossed)]
        read(r, old) ==
            LET to_modify == (old.v + delta + U8) % U8
            IN  stored(r, to_modify, MWrite(old.m, r.address, to_modify))
        resolved(r) == read(r, MRead(r.m, r.address))
    IN  IF am \in ModesRmw THEN resolved(resolve_address_fetch(m, am))
        ELSE InvalidMode(m)

DEC(m, am) == Modify(m, am, -1)
INC(m, am) == Modify(m, am, 1)

DEX(m, am) ==
    LET x1 == WrappingSub8(m.cpu.x, 1)
    IN  Implied(m, am, set_status_nz([m.cpu EXCEPT !.x = x1], x1))
DEY(m, am) ==
    LET y1 == WrappingSub8(m.cpu.y, 1)
    IN  Implied(m, am, set_status_nz([m.cpu EXCEPT !.y = y1], y1))
INX(m, am) ==
    LET x1 == WrappingAdd8(m.cpu.x, 1)
    IN  Implied(m, am, set_status_nz([m.cpu EXCEPT !.x = x1], x1))
INY(m, am) ==
    LET y1 == WrappingAdd8(m.cpu.y, 1)
    IN  Implied(m, am, set_status_nz([m.cpu EXCEPT !.y = y1], y1))

EOR(m, am) ==
    LET execute(o) ==
            LET a1 == BitXor(o.m.cpu.a, o.v)
            IN  [m |-> SetCpu(o.m, set_status_nz([o.m.cpu EXCEPT !.a = a1], a1)),
                 t |-> o.t]
    IN  execute(Operand(m, am, ModesAcc, TRUE))

ORA(m, am) ==
    LET execute(o) ==
            LET a1 == BitOr(o.m.cpu.a, o.v)
            IN  [m |-> SetCpu(o.m, set_status_nz([o.m.cpu EXCEPT !.a = a1], a1)),
                 t |-> o.t]
    IN  execute(Operand(m, am, ModesAcc, TRUE))

(* faulty variant of JMP: the high byte of an indirect target is read from  *)
(* the address after the pointer, across the page boundary                 *)
JMP_no_page_wrap(m, am) ==
    LET resolved(r) ==
            [m |-> SetCpu(r.m, [r.m.cpu EXCEPT !.pc = r.address]),
             t |-> Tk(r.crossed)]
        with_hi(lo, hi) ==
            [m |-> SetCpu(hi.m, [hi.m.cpu EXCEPT !.pc = AddrOf(hi.v, lo.v)]),
             t |-> 0]
        with_lo(r, lo) ==
            with_hi(lo, MRead(lo.m, WrappingAdd16(r.address, 1)))
        pointer(r) == with_lo(r, MRead(r.m, r.address))
    IN  IF am = "Indirect" THEN pointer(resolve_address_fetch(m, "Absolute"))
        ELSE IF am \in ModesJmp THEN resolved(resolve_address_fetch(m, am))
        ELSE InvalidMode(m)

JMP(m, am) ==
    LET resolved(r) ==
            [m |-> SetCpu(r.m, [r.m.cpu EXCEPT !.pc = r.address]),
             t |-> Tk(r.crossed)]
    IN  IF am \in ModesJmp THEN resolved(resolve_address_fetch(m, am))
        ELSE InvalidMode(m)

JSR(m, am) ==
    LET with_m2(r, m2) ==
            [m |-> SetCpu(m2, [m2.cpu EXCEPT !.pc = r.address]),
             t |-> Tk(r.crossed)]
        with_m1(r, lo, m1) == with_m2(r, push_stack(m1, lo))
        resolved(to_be_pushed, r) ==
            LET lo == to_be_pushed.v % 256
                hi == to_be_pushed.v \div 256
            IN  with_m1(r, lo, push_stack(r.m, hi))
        with_pc(to_be_pushed) ==
            resolved(to_be_pushed,
                     resolve_address_fetch(to_be_pushed.m, am))
    IN  IF am = "Absolute" THEN with_pc(Add16(m, m.cpu.pc, 1))
        ELSE InvalidMode(m)

LDA(m, am) ==
    LET execute(o) ==
            [m |-> SetCpu(o.m, set_status_nz([o.m.cpu EXCEPT !.a = o.v], o.v)),
             t |-> o.t]
    IN  execute(Operand(m, am, ModesAcc, TRUE))
LDX(m, am) ==
    LET execute(o) ==
            [m |-> SetCpu(o.m, set_status_nz([o.m.cpu EXCEPT !.x = o.v], o.v)),
             t |-> o.t]
    IN  execute(Operand(m, am, ModesLdx, TRUE))
LDY(m, am) ==
    LET execute(o) ==
            [m |-> SetCpu(o.m, set_status_nz([o.m.cpu EXCEPT !.y = o.v], o.v)),
             t |-> o.t]
    IN  execute(Operand(m, am, ModesLdy, TRUE))

PHA(m, am) ==
    IF am = "Implied" THEN [m |-> push_stack(m, m.cpu.a), t |-> 0]
    ELSE InvalidMode(m)

(* faulty variant of PHP: the status byte is pushed without the B mask     *)
PHP_without_b(m, am) ==
    IF am = "Implied"
    THEN LET p == to_byte(m.cpu.p)
         IN  [m |-> push_stack(m, p), t |-> 0]
    ELSE InvalidMode(m)

PHP(m, am) ==
    IF am = "Implied"
    THEN LET p == BitOr(to_byte(m.cpu.p), 16)
         IN  [m |-> push_stack(m, p), t |-> 0]
    ELSE InvalidMode(m)

PLA(m, am) ==
    LET popped(r) ==
            [m |-> SetCpu(r.m, set_status_nz([r.m.cpu EXCEPT !.a = r.v], r.v)),
             t |-> 0]
    IN  IF am = "Implied" THEN popped(pop_stack(m)) ELSE InvalidMode(m)

(* faulty variant of PLP: the pulled byte is used without the $CF mask     *)
PLP_no_mask(m, am) ==
    LET popped(r) ==
            [m |-> SetCpu(r.m, [r.m.cpu EXCEPT !.p = set_from_byte(r.v)]),
             t |-> 0]
    IN  IF am = "Implied" THEN popped(pop_stack(m)) ELSE InvalidMode(m)

PLP(m, am) ==
    LET popped(r) ==
            LET p == BitAnd(r.v, 207)
            IN  [m |-> SetCpu(r.m, [r.m.cpu EXCEPT !.p = set_from_byte(p)]),
                 t |-> 0]
    IN  IF am = "Implied" THEN popped(pop_stack(m)) ELSE InvalidMode(m)

(* faulty variant of RTI: the popped address is stepped as RTS steps it     *)
RTI_plus_one(m, am) ==
    LET with_hi(lo, hi) ==
            [m |-> SetCpu(hi.m, [hi.m.cpu EXCEPT
                        !.pc = WrappingAdd16(AddrOf(hi.v, lo.v), 1)]),
             t |-> 0]
        with_lo(lo) == with_hi(lo, pop_stack(lo.m))
        popped(r) ==
            LET p == BitAnd(r.v, 207)
            IN  with_lo(pop_stack(
                    SetCpu(r.m, [r.m.cpu EXCEPT !.p = set_from_byte(p)])))
    IN  IF am = "Implied" THEN popped(pop_stack(m)) ELSE InvalidMode(m)

RTI(m, am) ==
    LET with_hi(lo, hi) ==
            [m |-> SetCpu(hi.m, [hi.m.cpu EXCEPT !.pc = AddrOf(hi.v, lo.v)]),
             t |-> 0]
        with_lo(lo) == with_hi(lo, pop_stack(lo.m))
        popped(r) ==
            LET p == BitAnd(r.v, 207)
            IN  with_lo(pop_stack(
                    SetCpu(r.m, [r.m.cpu EXCEPT !.p = set_from_byte(p)])))
    IN  IF am = "Implied" THEN popped(pop_stack(m)) ELSE InvalidMode(m)

(* faulty variant of RTS: the popped address is not stepped past the JSR    *)
RTS_no_increment(m, am) ==
    LET with_hi(lo, hi) ==
            [m |-> SetCpu(hi.m, [hi.m.cpu EXCEPT !.pc = AddrOf(hi.v, lo.v)]),
             t |-> 0]
        with_lo(lo) == with_hi(lo, pop_stack(lo.m))
    IN  IF am = "Implied" THEN with_lo(pop_stack(m)) ELSE InvalidMode(m)

RTS(m, am) ==
    LET with_hi(lo, hi) ==
            [m |-> SetCpu(hi.m, [hi.m.cpu EXCEPT
                        !.pc = WrappingAdd16(AddrOf(hi.v, lo.v), 1)]),
             t |-> 0]
        with_lo(lo) == with_hi(lo, pop_stack(lo.m))
    IN  IF am = "Implied" THEN with_lo(pop_stack(m)) ELSE InvalidMode(m)

(* faulty variant of SBC: the operand is not complemented                  *)
SBC_no_complement(m, am) ==
    LET execute(o) ==
            LET complement == o.v
            IN  [m |-> SetCpu(o.m, adc_logic(o.m.cpu, complement)), t |-> o.t]
    IN  execute(Operand(m, am, ModesAcc, TRUE))

SBC(m, am) ==
    LET execute(o) ==
            LET complement == BitNot(o.v)
            IN  [m |-> SetCpu(o.m, adc_logic(o.m.cpu, complement)), t |-> o.t]
    IN  execute(Operand(m, am, ModesAcc, TRUE))

Store(m, am, modes, reg) ==
    LET resolved(r) ==
            [m |-> MWrite(r.m, r.address, reg), t |-> Tk(r.crossed)]
    IN  IF am \in modes THEN resolved(resolve_address_fetch(m, am))
        ELSE InvalidMode(m)

STA(m, am) == Store(m, am, ModesAcc, m.cpu.a)
STX(m, am) == Store(m, am, ModesStx, m.cpu.x)
STY(m, am) == Store(m, am, ModesSty, m.cpu.y)

TAX(m, am) ==
    Implied(m, am, set_status_nz([m.cpu EXCEPT !.x = m.cpu.a], m.cpu.a))
TAY(m, am) ==
    Implied(m, am, set_status_nz([m.cpu EXCEPT !.y = m.cpu.a], m.cpu.a))
TSX(m, am) ==
    Implied(m, am, set_status_nz([m.cpu EXCEPT !.x = m.cpu.sp], m.cpu.sp))
TXA(m, am) ==
    Implied(m, am, set_status_nz([m.cpu EXCEPT !.a = m.cpu.x], m.cpu.x))
TXS(m, am) == Implied(m, am, [m.cpu EXCEPT !.sp = m.cpu.x])
TYA(m, am) ==
    Implied(m, am, set_status_nz([m.cpu EXCEPT !.a = m.cpu.y], m.cpu.y))

-----------------------------------------------------------------------------
(* Decoder: the arms of map_byte_to_instruction as rows                    *)
(* <<byte, mnemonic, addressing mode, base ticks>>, in source order.       *)

OpcodeRows ==
    {
     <<109, "ADC", "Absolute", 4>>, <<125, "ADC", "AbsoluteX", 4>>,
     <<121, "ADC", "AbsoluteY", 4>>, <<105, "ADC", "Immediate", 2>>,
     <<97, "ADC", "IndirectX", 6>>, <<113, "ADC", "IndirectY", 5>>,
     <<101, "ADC", "ZeroPage", 3>>, <<117, "ADC", "ZeroPageX", 4>>,
     <<45, "AND", "Absolute", 4>>, <<61, "AND", "AbsoluteX", 4>>,
     <<57, "AND", "AbsoluteY", 4>>, <<41, "AND", "Immediate", 2>>,
     <<33, "AND", "IndirectX", 6>>, <<49, "AND", "IndirectY", 5>>,
     <<37, "AND", "ZeroPage", 3>>, <<53, "AND", "ZeroPageX", 4>>,
     <<10, "ASL", "Accumulator", 2>>, <<14, "ASL", "Absolute", 6>>,
     <<30, "ASL", "AbsoluteX", 7>>, <<6, "ASL", "ZeroPage", 5>>,
     <<22, "ASL", "ZeroPageX", 6>>, <<144, "BCC", "Relative", 2>>,
     <<176, "BCS", "Relative", 2>>, <<240, "BEQ", "Relative", 2>>,
     <<44, "BIT", "Absolute", 4>>, <<36, "BIT", "ZeroPage", 3>>,
     <<48, "BMI", "Relative", 2>>, <<208, "BNE", "Relative", 2>>,
     <<16, "BPL", "Relative", 2>>, <<0, "BRK", "Implied", 7>>,
     <<80, "BVC", "Relative", 2>>, <<112, "BVS", "Relative", 2>>,
     <<24, "CLC", "Implied", 2>>, <<216, "CLD", "Implied", 2>>,
     <<88, "CLI", "Implied", 2>>, <<184, "CLV", "Implied", 2>>,
     <<205, "CMP", "Absolute", 4>>, <<221, "CMP", "AbsoluteX", 4>>,
     <<217, "CMP", "AbsoluteY", 4>>, <<201, "CMP", "Immediate", 2>>,
     <<193, "CMP", "IndirectX", 6>>, <<209, "CMP", "IndirectY", 5>>,
     <<197, "CMP", "ZeroPage", 3>>, <<213, "CMP", "ZeroPageX", 4>>,
     <<236, "CPX", "Absolute", 4>>, <<224, "CPX", "Immediate", 2>>,
     <<228, "CPX", "ZeroPage", 3>>, <<204, "CPY", "Absolute", 4>>,
     <<192, "CPY", "Immediate", 2>>, <<196, "CPY", "ZeroPage", 3>>,
     <<206, "DEC", "Absolute", 6>>, <<222, "DEC", "AbsoluteX", 7>>,
     <<198, "DEC", "ZeroPage", 5>>, <<214, "DEC", "ZeroPageX", 6>>,
     <<202, "DEX", "Implied", 2>>, <<136, "DEY", "Implied", 2>>,
     <<77, "EOR", "Absolute", 4>>, <<93, "EOR", "AbsoluteX", 4>>,
     <<89, "EOR", "AbsoluteY", 4>>, <<73, "EOR", "Immediate", 2>>,
     <<65, "EOR", "IndirectX", 6>>, <<81, "EOR", "IndirectY", 5>>,
     <<69, "EOR", "ZeroPage", 3>>, <<85, "EOR", "ZeroPageX", 4>>,
     <<238, "INC", "Absolute", 6>>, <<254, "INC", "AbsoluteX", 7>>,
     <<230, "INC", "ZeroPage", 5>>, <<246, "INC", "ZeroPageX", 6>>,
     <<232, "INX", "Implied", 2>>, <<200, "INY", "Implied", 2>>,
     <<76, "JMP", "Absolute", 3>>, <<108, "JMP", "Indirect", 5>>,
     <<32, "JSR", "Absolute", 6>>, <<173, "LDA", "Absolute", 4>>,
     <<189, "LDA", "AbsoluteX", 4>>, <<185, "LDA", "AbsoluteY", 4>>,
     <<169, "LDA", "Immediate", 2>>, <<161, "LDA", "IndirectX", 6>>,
     <<177, "LDA", "IndirectY", 5>>, <<165, "LDA", "ZeroPage", 3>>,
     <<181, "LDA", "ZeroPageX", 4>>, <<174, "LDX", "Absolute", 4>>,
     <<190, "LDX", "AbsoluteY", 4>>, <<162, "LDX", "Immediate", 2>>,
     <<166, "LDX", "ZeroPage", 3>>, <<182, "LDX", "ZeroPageY", 4>>,
     <<172, "LDY", "Absolute", 4>>, <<188, "LDY", "AbsoluteX", 4>>,
     <<160, "LDY", "Immediate", 2>>, <<164, "LDY", "ZeroPage", 3>>,
     <<180, "LDY", "ZeroPageX", 4>>, <<78, "LSR", "Absolute", 6>>,
     <<94, "LSR", "AbsoluteX", 7>>, <<74, "LSR", "Accumulator", 2>>,
     <<70, "LSR", "ZeroPage", 5>>, <<86, "LSR", "ZeroPageX", 6>>,
     <<234, "NOP", "Implied", 2>>, <<13, "ORA", "Absolute", 4>>,
     <<29, "ORA", "AbsoluteX", 4>>, <<25, "ORA", "AbsoluteY", 4>>,
     <<9, "ORA", "Immediate", 2>>, <<1, "ORA", "IndirectX", 6>>,
     <<17, "ORA", "IndirectY", 5>>, <<5, "ORA", "ZeroPage", 3>>,
     <<21, "ORA", "ZeroPageX", 4>>, <<72, "PHA", "Implied", 3>>,
     <<8, "PHP", "Implied", 3>>, <<104, "PLA", "Implied", 4>>,
     <<40, "PLP", "Implied", 4>>, <<46, "ROL", "Absolute", 6>>,
     <<62, "ROL", "AbsoluteX", 7>>, <<42, "ROL", "Accumulator", 2>>,
     <<38, "ROL", "ZeroPage", 5>>, <<54, "ROL", "ZeroPageX", 6>>,
     <<110, "ROR", "Absolute", 6>>, <<126, "ROR", "AbsoluteX", 7>>,
     <<106, "ROR", "Accumulator", 2>>, <<102, "ROR", "ZeroPage", 5>>,
     <<118, "ROR", "ZeroPageX", 6>>, <<64, "RTI", "Implied", 6>>,
     <<96, "RTS", "Implied", 6>>, <<237, "SBC", "Absolute", 4>>,
     <<253, "SBC", "AbsoluteX", 4>>, <<249, "SBC", "AbsoluteY", 4>>,
     <<233, "SBC", "Immediate", 2>>, <<225, "SBC", "IndirectX", 6>>,
     <<241, "SBC", "IndirectY", 5>>, <<229, "SBC", "ZeroPage", 3>>,
     <<245, "SBC", "ZeroPageX", 4>>, <<56, "SEC", "Implied", 2>>,
     <<248, "SED", "Implied", 2>>, <<120, "SEI", "Implied", 2>>,
     <<141, "STA", "Absolute", 4>>, <<157, "STA", "AbsoluteX", 5>>,
     <<153, "STA", "AbsoluteY", 5>>, <<129, "STA", "IndirectX", 6>>,
     <<145, "STA", "IndirectY", 6>>, <<133, "STA", "ZeroPage", 3>>,
     <<149, "STA", "ZeroPageX", 4>>, <<142, "STX", "Absolute", 4>>,
     <<134, "STX", "ZeroPage", 3>>, <<150, "STX", "ZeroPageY", 4>>,
     <<140, "STY", "Absolute", 4>>, <<132, "STY", "ZeroPage", 3>>,
     <<148, "STY", "ZeroPageX", 4>>, <<170, "TAX", "Implied", 2>>,
     <<168, "TAY", "Implied", 2>>, <<186, "TSX", "Implied", 2>>,
     <<138, "TXA", "Implied", 2>>, <<154, "TXS", "Implied", 2>>,
     <<152, "TYA", "Implied", 2>>
    }

OpcodeTable ==
    [b \in {r[1] : r \in OpcodeRows} |-> CHOOSE r \in OpcodeRows : r[1] = b]

(* faulty variant of map_byte_to_instruction: the catch-all arm does not   *)
(* keep the byte                                                           *)
map_byte_to_instruction_no_byte(byte) ==
    IF byte \in DOMAIN OpcodeTable
    THEN [instr |-> [op |-> OpcodeTable[byte][2], am |-> OpcodeTable[byte][3]],
          ticks |-> OpcodeTable[byte][4]]
    ELSE [instr |-> [op |-> "Invalid", byte |-> 0], ticks |-> 0]

map_byte_to_instruction(byte) ==
    IF byte \in DOMAIN OpcodeTable
    THEN [instr |-> [op |-> OpcodeTable[byte][2], am |-> OpcodeTable[byte][3]],
          ticks |-> OpcodeTable[byte][4]]
    ELSE [instr |-> [op |-> "Invalid", byte |-> byte], ticks |-> 0]

(* faulty variant of Invalid: the undocumented byte is skipped             *)
Invalid_skipped(m, byte) == [m |-> m, t |-> 0]

Invalid(m, byte) == [m |-> Panic(m, PanicUndocumented), t |-> 0]

process_instruction(m, instruction, minimum_ticks) ==
    LET op == instruction.op
        executed(r) ==
            LET num_ticks == minimum_ticks + r.t
            IN  IF Ok(r.m)
                THEN [m |-> tick(r.m, num_ticks), ticks |-> num_ticks]
                ELSE [m |-> r.m, ticks |-> 0]
    IN  executed(
             CASE op = "ADC" -> ADC(m, instruction.am)
               [] op = "AND" -> AND(m, instruction.am)
               [] op = "ASL" -> ASL(m, instruction.am)
               [] op = "BCC" -> BCC(m, instruction.am)
               [] op = "BCS" -> BCS(m, instruction.am)
               [] op = "BEQ" -> BEQ(m, instruction.am)
               [] op = "BIT" -> BIT(m, instruction.am)
               [] op = "BMI" -> BMI(m, instruction.am)
               [] op = "BNE" -> BNE(m, instruction.am)
               [] op = "BPL" -> BPL(m, instruction.am)
               [] op = "BRK" -> BRK(m, instruction.am)
               [] op = "BVC" -> BVC(m, instruction.am)
               [] op = "BVS" -> BVS(m, instruction.am)
               [] op = "CLC" -> CLC(m, instruction.am)
               [] op = "CLD" -> CLD(m, instruction.am)
               [] op = "CLI" -> CLI(m, instruction.am)
               [] op = "CLV" -> CLV(m, instruction.am)
               [] op = "CMP" -> CMP(m, instruction.am)
               [] op = "CPX" -> CPX(m, instruction.am)
               [] op = "CPY" -> CPY(m, instruction.am)
               [] op = "DEC" -> DEC(m, instruction.am)
               [] op = "DEX" -> DEX(m, instruction.am)
               [] op = "DEY" -> DEY(m, instruction.am)
               [] op = "EOR" -> EOR(m, instruction.am)
               [] op = "INC" -> INC(m, instruction.am)
               [] op = "INX" -> INX(m, instruction.am)
               [] op = "INY" -> INY(m, instruction.am)
               [] op = "JMP" -> JMP(m, instruction.am)
               [] op = "JSR" -> JSR(m, instruction.am)
               [] op = "LDA" -> LDA(m, instruction.am)
               [] op = "LDX" -> LDX(m, instruction.am)
               [] op = "LDY" -> LDY(m, instruction.am)
               [] op = "LSR" -> LSR(m, instruction.am)
               [] op = "NOP" -> NOP(m, instruction.am)
               [] op = "ORA" -> ORA(m, instruction.am)
               [] op = "PHA" -> PHA(m, instruction.am)
               [] op = "PHP" -> PHP(m, instruction.am)
               [] op = "PLA" -> PLA(m, instruction.am)
               [] op = "PLP" -> PLP(m, instruction.am)
               [] op = "ROL" -> ROL(m, instruction.am)
               [] op = "ROR" -> ROR(m, instruction.am)
               [] op = "RTI" -> RTI(m, instruction.am)
               [] op = "RTS" -> RTS(m, instruction.am)
               [] op = "SBC" -> SBC(m, instruction.am)
               [] op = "SEC" -> SEC(m, instruction.am)
               [] op = "SED" -> SED(m, instruction.am)
               [] op = "SEI" -> SEI(m, instruction.am)
               [] op = "STA" -> STA(m, instruction.am)
               [] op = "STX" -> STX(m, instruction.am)
               [] op = "STY" -> STY(m, instruction.am)
               [] op = "TAX" -> TAX(m, instruction.am)
               [] op = "TAY" -> TAY(m, instruction.am)
               [] op = "TSX" -> TSX(m, instruction.am)
               [] op = "TXA" -> TXA(m, instruction.am)
               [] op = "TXS" -> TXS(m, instruction.am)
               [] op = "TYA" -> TYA(m, instruction.am)
               [] op = "Invalid" -> Invalid(m, instruction.byte))

-----------------------------------------------------------------------------
(* State machine.                                                          *)

Cur == [cpu |-> cpu, bus |-> bus, fail |-> fail]

SetCur(m) ==
    /\ cpu' = m.cpu
    /\ bus' = m.bus
    /\ fail' = m.fail

MaxSteps == 2

(* a program image: the bytes of s stored from address base on, in a       *)
(* zero-filled array                                                       *)
LoadBytes(base, s) ==
    [k \in {base + j - 1 : j \in {i \in 1 .. Len(s) : s[i] # 0}}
        |-> s[k - base + 1]]

Start(c, b, i) ==
    /\ cpu = c
    /\ bus = b
    /\ fail = StatusNone
    /\ overflow_checks \in BOOLEAN
    /\ inp = i
    /\ last = [op |-> "init", n |-> 0]

(* the body of the fetch-decode-execute loop: fetch, decode, execute       *)
Iterate ==
    /\ LET executed(f, d, r) ==
               /\ SetCur(r.m)
               /\ last' = [op |-> "step", n |-> last.n + 1, pre |-> Cur,
                           fetched |-> f.m, byte |-> f.v, instr |-> d.instr,
                           minimum_ticks |-> d.ticks, ticks |-> r.ticks]
           decoded(f, d) ==
               executed(f, d,
                   IF Ok(f.m)
                   THEN process_instruction(f.m, d.instr, d.ticks)
                   ELSE [m |-> f.m, ticks |-> 0])
           fetched(f) == decoded(f, map_byte_to_instruction(f.v))
       IN  fetched(fetch_instruction(Cur))
    /\ UNCHANGED <<overflow_checks, inp>>

(* one iteration of the fetch-decode-execute loop                          *)
Step ==
    /\ fail = StatusNone
    /\ last.n < MaxSteps
    /\ Iterate

MaxRun == 64

(* the exit predicate handed to run_cpu_program: the PCs it accepts        *)
exit_condition(pc) == pc \in inp.exit

(* faulty variant of RunIteration: the predicate is tested only after the  *)
(* first instruction, as in a do-while loop                                *)
RunIteration_do_while ==
    /\ fail = StatusNone
    /\ last.op # "return"
    /\ last.n < MaxRun
    /\ (last.n > 0) => (exit_condition(cpu.pc) = FALSE)
    /\ Iterate

(* run_cpu_program: one pass of the while loop, entered when the exit      *)
(* predicate is false at the loop head                                     *)
RunIteration ==
    /\ fail = StatusNone
    /\ last.op # "return"
    /\ last.n < MaxRun
    /\ exit_condition(cpu.pc) = FALSE
    /\ Iterate

(* run_cpu_program: the loop head finds the exit predicate true and the    *)
(* function returns                                                        *)
RunReturn ==
    /\ fail = StatusNone
    /\ last.op # "return"
    /\ exit_condition(cpu.pc) = TRUE
    /\ last' = [op |-> "return", n |-> last.n, pre |-> Cur]
    /\ UNCHANGED <<cpu, bus, fail, overflow_checks, inp>>

(* Read::read_exact into the slice arr[base .. base + len) from position   *)
(* pos of a file that holds at least pos + len bytes                       *)
read_exact(arr, base, len, file, pos) ==
    [k \in {a \in DOMAIN arr : a < base \/ a >= base + len}
            \cup {base + (q - pos) :
                    q \in {o \in DOMAIN file : o >= pos /\ o < pos + len}}
        |-> IF k >= base /\ k < base + len
            THEN file[pos + (k - base)] ELSE arr[k]]

INES_HEADER == 16
PRG_BANK == 16384
CHR_BANK == 8192

(* faulty variant of load_nrom_128: the file is not rewound before the     *)
(* second bank is read                                                     *)
load_nrom_128_no_rewind(m, file, memory_entry_point) ==
    IF memory_entry_point + PRG_BANK > CPU_MEMORY_SIZE
    THEN Panic(m, PanicIndex)
    ELSE LET cpu_memory_0 ==
                 read_exact(m.bus.bytes, memory_entry_point, PRG_BANK,
                            file, INES_HEADER)
         IN  IF memory_entry_point + 2 * PRG_BANK > CPU_MEMORY_SIZE
             THEN Panic([m EXCEPT !.bus.bytes = cpu_memory_0], PanicIndex)
             ELSE LET cpu_memory_1 ==
                          read_exact(cpu_memory_0,
                                     memory_entry_point + PRG_BANK, PRG_BANK,
                                     file, INES_HEADER + PRG_BANK)
                      ppu_memory ==
                          read_exact(m.bus.ppu.memory, 0, CHR_BANK,
                                     file, INES_HEADER + 2 * PRG_BANK)
                      lo == Get(cpu_memory_1, 65532)
                      hi == Get(cpu_memory_1, 65533)
                  IN  [m EXCEPT !.bus.bytes = cpu_memory_1,
                                !.bus.ppu.memory = ppu_memory,
                                !.cpu.pc = AddrOf(hi, lo)]

(* load_nrom_128 on a file of at least 16 + 16384 + 8192 bytes; a slice    *)
(* that ends beyond the bus array is the index panic                       *)
load_nrom_128(m, file, memory_entry_point) ==
    IF memory_entry_point + PRG_BANK > CPU_MEMORY_SIZE
    THEN Panic(m, PanicIndex)
    ELSE LET cpu_memory_0 ==
                 read_exact(m.bus.bytes, memory_entry_point, PRG_BANK,
                            file, INES_HEADER)
         IN  IF memory_entry_point + 2 * PRG_BANK > CPU_MEMORY_SIZE
             THEN Panic([m EXCEPT !.bus.bytes = cpu_memory_0], PanicIndex)
             ELSE LET cpu_memory_1 ==
                          read_exact(cpu_memory_0,
                                     memory_entry_point + PRG_BANK, PRG_BANK,
                                     file, INES_HEADER)
                      ppu_memory ==
                          read_exact(m.bus.ppu.memory, 0, CHR_BANK,
                                     file, INES_HEADER + PRG_BANK)
                      lo == Get(cpu_memory_1, 65532)
                      hi == Get(cpu_memory_1, 65533)
                  IN  [m EXCEPT !.bus.bytes = cpu_memory_1,
                                !.bus.ppu.memory = ppu_memory,
                                !.cpu.pc = AddrOf(hi, lo)]

(* a single call of load_nrom_128 on the file inp.file                     *)
LoadNrom ==
    /\ fail = StatusNone
    /\ last.op = "init"
    /\ SetCur(load_nrom_128(Cur, inp.file, inp.memory_entry_point))
    /\ last' = [op |-> "load", n |-> last.n + 1, pre |-> Cur]
    /\ UNCHANGED <<overflow_checks, inp>>

(* a single call of fetch_instruction                                      *)
FetchInstruction ==
    /\ fail = StatusNone
    /\ last.n < MaxSteps
    /\ LET fetched(f) ==
               /\ SetCur(f.m)
               /\ last' = [op |-> "fetch", n |-> last.n + 1, pre |-> Cur,
                           ret |-> f.v]
       IN  fetched(fetch_instruction(Cur))
    /\ UNCHANGED <<overflow_checks, inp>>

(* a single call of push_stack                                             *)
PushStack ==
    /\ fail = StatusNone
    /\ last.op = "init"
    /\ SetCur(push_stack(Cur, inp.byte))
    /\ last' = [op |-> "push", n |-> last.n + 1, pre |-> Cur]
    /\ UNCHANGED <<overflow_checks, inp>>

(* a single call of pop_stack, directly after the push                     *)
PopStack ==
    /\ fail = StatusNone
    /\ last.op = "push"
    /\ LET popped(r) ==
               /\ SetCur(r.m)
               /\ last' = [op |-> "pop", n |-> last.n + 1, pre |-> last.pre,
                           ret |-> r.v]
       IN  popped(pop_stack(Cur))
    /\ UNCHANGED <<overflow_checks, inp>>

(* p.set_from_byte(p.to_byte())                                            *)
StatusRoundTrip ==
    /\ fail = StatusNone
    /\ last.op = "init"
    /\ cpu' = [cpu EXCEPT !.p = set_from_byte(to_byte(cpu.p))]
    /\ last' = [op |-> "round_trip", n |-> last.n + 1, pre |-> Cur,
                byte |-> to_byte(cpu.p)]
    /\ UNCHANGED <<bus, fail, overflow_checks, inp>>

(* a single call of map_byte_to_instruction                                *)
Decode ==
    /\ fail = StatusNone
    /\ last.op = "init"
    /\ last' = [op |-> "decode", n |-> last.n + 1, byte |-> inp.byte,
                result |-> map_byte_to_instruction(inp.byte)]
    /\ UNCHANGED <<cpu, bus, fail, overflow_checks, inp>>

-----------------------------------------------------------------------------
(* Specification of the executor: a three-byte program image at the entry  *)
(* point, any opcode byte first, run for MaxSteps instructions.            *)

EntryPoints == {1536, 767}
OperandLo == {0, 16, 255}
OperandHi == {0, 2}
RegA == {0, 129}
RegX == {0, 255}
RegY == {1}
RegSp == {255, 0}
RegP == {StatusRegisterDefault,
         [n |-> TRUE, v |-> TRUE, b |-> FALSE, d |-> TRUE,
          i |-> TRUE, z |-> TRUE, c |-> TRUE]}

Init ==
    \E pc \in EntryPoints, opcode \in Byte, lo \in OperandLo, hi \in OperandHi,
       a \in RegA, x \in RegX, y \in RegY, sp \in RegSp, p \in RegP :
        Start([CPUDefault EXCEPT !.pc = pc, !.a = a, !.x = x, !.y = y,
                                 !.sp = sp, !.p = p],
              [BusDefault EXCEPT !.bytes = LoadBytes(pc, <<opcode, lo, hi>>)],
              [opcode |-> opcode])

Next == Step

Spec == Init /\ [][Next]_vars

-----------------------------------------------------------------------------
(* Specification of the status register: every combination of the seven    *)
(* flags, packed and unpacked.                                             *)

InitStatus ==
    \E p \in StatusRegisters :
        Start([CPUDefault EXCEPT !.p = p], BusDefault, [p |-> p])

NextStatus == StatusRoundTrip

SpecStatus == InitStatus /\ [][NextStatus]_vars

\* C6: for every StatusRegister value P, set_from_byte(to_byte(P)) equals P
\* in all seven flags.
C6_RoundTrip ==
    last.op = "round_trip" =>
        /\ cpu.p.n = inp.p.n
        /\ cpu.p.v = inp.p.v
        /\ cpu.p.b = inp.p.b
        /\ cpu.p.d = inp.p.d
        /\ cpu.p.i = inp.p.i
        /\ cpu.p.z = inp.p.z
        /\ cpu.p.c = inp.p.c

C6_Witness ==
    /\ last.op = "round_trip"
    /\ inp.p = [n |-> TRUE, v |-> FALSE, b |-> TRUE, d |-> TRUE,
                i |-> FALSE, z |-> TRUE, c |-> FALSE]
    /\ cpu.p = inp.p
    /\ last.byte = 186

-----------------------------------------------------------------------------
(* Specification of the decoder: every byte value, decoded once.           *)

InitDecode ==
    \E b \in Byte : Start(CPUDefault, BusDefault, [byte |-> b])

NextDecode == Decode

SpecDecode == InitDecode /\ [][NextDecode]_vars

(* the opcode map of the specification, section 6:                         *)
(* <<byte, mnemonic, addressing mode, base cycles>>                        *)
SpecOpcodeMap ==
    {
     <<0, "BRK", "Implied", 7>>, <<1, "ORA", "IndirectX", 6>>,
     <<5, "ORA", "ZeroPage", 3>>, <<6, "ASL", "ZeroPage", 5>>,
     <<8, "PHP", "Implied", 3>>, <<9, "ORA", "Immediate", 2>>,
     <<10, "ASL", "Accumulator", 2>>, <<13, "ORA", "Absolute", 4>>,
     <<14, "ASL", "Absolute", 6>>, <<16, "BPL", "Relative", 2>>,
     <<17, "ORA", "IndirectY", 5>>, <<21, "ORA", "ZeroPageX", 4>>,
     <<22, "ASL", "ZeroPageX", 6>>, <<24, "CLC", "Implied", 2>>,
     <<25, "ORA", "AbsoluteY", 4>>, <<29, "ORA", "AbsoluteX", 4>>,
     <<30, "ASL", "AbsoluteX", 7>>, <<32, "JSR", "Absolute", 6>>,
     <<33, "AND", "IndirectX", 6>>, <<36, "BIT", "ZeroPage", 3>>,
     <<37, "AND", "ZeroPage", 3>>, <<38, "ROL", "ZeroPage", 5>>,
     <<40, "PLP", "Implied", 4>>, <<41, "AND", "Immediate", 2>>,
     <<42, "ROL", "Accumulator", 2>>, <<44, "BIT", "Absolute", 4>>,
     <<45, "AND", "Absolute", 4>>, <<46, "ROL", "Absolute", 6>>,
     <<48, "BMI", "Relative", 2>>, <<49, "AND", "IndirectY", 5>>,
     <<53, "AND", "ZeroPageX", 4>>, <<54, "ROL", "ZeroPageX", 6>>,
     <<56, "SEC", "Implied", 2>>, <<57, "AND", "AbsoluteY", 4>>,
     <<61, "AND", "AbsoluteX", 4>>, <<62, "ROL", "AbsoluteX", 7>>,
     <<64, "RTI", "Implied", 6>>, <<65, "EOR", "IndirectX", 6>>,
     <<69, "EOR", "ZeroPage", 3>>, <<70, "LSR", "ZeroPage", 5>>,
     <<72, "PHA", "Implied", 3>>, <<73, "EOR", "Immediate", 2>>,
     <<74, "LSR", "Accumulator", 2>>, <<76, "JMP", "Absolute", 3>>,
     <<77, "EOR", "Absolute", 4>>, <<78, "LSR", "Absolute", 6>>,
     <<80, "BVC", "Relative", 2>>, <<81, "EOR", "IndirectY", 5>>,
     <<85, "EOR", "ZeroPageX", 4>>, <<86, "LSR", "ZeroPageX", 6>>,
     <<88, "CLI", "Implied", 2>>, <<89, "EOR", "AbsoluteY", 4>>,
     <<93, "EOR", "AbsoluteX", 4>>, <<94, "LSR", "AbsoluteX", 7>>,
     <<96, "RTS", "Implied", 6>>, <<97, "ADC", "IndirectX", 6>>,
     <<101, "ADC", "ZeroPage", 3>>, <<102, "ROR", "ZeroPage", 5>>,
     <<104, "PLA", "Implied", 4>>, <<105, "ADC", "Immediate", 2>>,
     <<106, "ROR", "Accumulator", 2>>, <<108, "JMP", "Indirect", 5>>,
     <<109, "ADC", "Absolute", 4>>, <<110, "ROR", "Absolute", 6>>,
     <<112, "BVS", "Relative", 2>>, <<113, "ADC", "IndirectY", 5>>,
     <<117, "ADC", "ZeroPageX", 4>>, <<118, "ROR", "ZeroPageX", 6>>,
     <<120, "SEI", "Implied", 2>>, <<121, "ADC", "AbsoluteY", 4>>,
     <<125, "ADC", "AbsoluteX", 4>>, <<126, "ROR", "AbsoluteX", 7>>,
     <<129, "STA", "IndirectX", 6>>, <<132, "STY", "ZeroPage", 3>>,
     <<133, "STA", "ZeroPage", 3>>, <<134, "STX", "ZeroPage", 3>>,
     <<136, "DEY", "Implied", 2>>, <<138, "TXA", "Implied", 2>>,
     <<140, "STY", "Absolute", 4>>, <<141, "STA", "Absolute", 4>>,
     <<142, "STX", "Absolute", 4>>, <<144, "BCC", "Relative", 2>>,
     <<145, "STA", "IndirectY", 6>>, <<148, "STY", "ZeroPageX", 4>>,
     <<149, "STA", "ZeroPageX", 4>>, <<150, "STX", "ZeroPageY", 4>>,
     <<152, "TYA", "Implied", 2>>, <<153, "STA", "AbsoluteY", 5>>,
     <<154, "TXS", "Implied", 2>>, <<157, "STA", "AbsoluteX", 5>>,
     <<160, "LDY", "Immediate", 2>>, <<161, "LDA", "IndirectX", 6>>,
     <<162, "LDX", "Immediate", 2>>, <<164, "LDY", "ZeroPage", 3>>,
     <<165, "LDA", "ZeroPage", 3>>, <<166, "LDX", "ZeroPage", 3>>,
     <<168, "TAY", "Implied", 2>>, <<169, "LDA", "Immediate", 2>>,
     <<170, "TAX", "Implied", 2>>, <<172, "LDY", "Absolute", 4>>,
     <<173, "LDA", "Absolute", 4>>, <<174, "LDX", "Absolute", 4>>,
     <<176, "BCS", "Relative", 2>>, <<177, "LDA", "IndirectY", 5>>,
     <<180, "LDY", "ZeroPageX", 4>>, <<181, "LDA", "ZeroPageX", 4>>,
     <<182, "LDX", "ZeroPageY", 4>>, <<184, "CLV", "Implied", 2>>,
     <<185, "LDA", "AbsoluteY", 4>>, <<186, "TSX", "Implied", 2>>,
     <<188, "LDY", "AbsoluteX", 4>>, <<189, "LDA", "AbsoluteX", 4>>,
     <<190, "LDX", "AbsoluteY", 4>>, <<192, "CPY", "Immediate", 2>>,
     <<193, "CMP", "IndirectX", 6>>, <<196, "CPY", "ZeroPage", 3>>,
     <<197, "CMP", "ZeroPage", 3>>, <<198, "DEC", "ZeroPage", 5>>,
     <<200, "INY", "Implied", 2>>, <<201, "CMP", "Immediate", 2>>,
     <<202, "DEX", "Implied", 2>>, <<204, "CPY", "Absolute", 4>>,
     <<205, "CMP", "Absolute", 4>>, <<206, "DEC", "Absolute", 6>>,
     <<208, "BNE", "Relative", 2>>, <<209, "CMP", "IndirectY", 5>>,
     <<213, "CMP", "ZeroPageX", 4>>, <<214, "DEC", "ZeroPageX", 6>>,
     <<216, "CLD", "Implied", 2>>, <<217, "CMP", "AbsoluteY", 4>>,
     <<221, "CMP", "AbsoluteX", 4>>, <<222, "DEC", "AbsoluteX", 7>>,
     <<224, "CPX", "Immediate", 2>>, <<225, "SBC", "IndirectX", 6>>,
     <<228, "CPX", "ZeroPage", 3>>, <<229, "SBC", "ZeroPage", 3>>,
     <<230, "INC", "ZeroPage", 5>>, <<232, "INX", "Implied", 2>>,
     <<233, "SBC", "Immediate", 2>>, <<234, "NOP", "Implied", 2>>,
     <<236, "CPX", "Absolute", 4>>, <<237, "SBC", "Absolute", 4>>,
     <<238, "INC", "Absolute", 6>>, <<240, "BEQ", "Relative", 2>>,
     <<241, "SBC", "IndirectY", 5>>, <<245, "SBC", "ZeroPageX", 4>>,
     <<246, "INC", "ZeroPageX", 6>>, <<248, "SED", "Implied", 2>>,
     <<249, "SBC", "AbsoluteY", 4>>, <<253, "SBC", "AbsoluteX", 4>>,
     <<254, "INC", "AbsoluteX", 7>>
    }

SpecBytes == {e[1] : e \in SpecOpcodeMap}

\* C8: map_byte_to_instruction is total over the 256 byte values; exactly
\* 151 bytes decode to a non-Invalid instruction, each with the mnemonic,
\* addressing mode and base cycle count the opcode map lists for that byte,
\* and each of the remaining 105 bytes b decodes to Invalid(b).
C8_DecodeTable ==
    last.op = "decode" =>
        /\ Cardinality({b \in Byte :
                map_byte_to_instruction(b).instr.op # "Invalid"}) = 151
        /\ Cardinality({b \in Byte :
                map_byte_to_instruction(b).instr.op = "Invalid"}) = 105
        /\ IF last.byte \in SpecBytes
           THEN \E e \in SpecOpcodeMap :
                    /\ e[1] = last.byte
                    /\ last.result.instr.op = e[2]
                    /\ last.result.instr.am = e[3]
                    /\ last.result.ticks = e[4]
           ELSE /\ last.result.instr.op = "Invalid"
                /\ last.result.instr.byte = last.byte

C8_Witness ==
    /\ last.op = "decode"
    /\ last.byte = 150
    /\ last.result = [instr |-> [op |-> "STX", am |-> "ZeroPageY"], ticks |-> 4]

-----------------------------------------------------------------------------
(* Specification of ADC: every accumulator, operand and carry-in; the      *)
(* operand is the immediate byte or a zero-page byte.  One instruction is  *)
(* fetched, decoded and executed.                                          *)

StepOnce ==
    /\ last.op = "init"
    /\ Step

AluEntry == {1536}
AluZeroPage == {16}
AdcOpcodes == {105, 101}

(* the image of a two-byte instruction whose operand value is val:         *)
(* immediate (imm = TRUE) or in the zero-page byte zp                      *)
OperandImage(pc, opcode, imm, zp, val) ==
    IF imm
    THEN LoadBytes(pc, <<opcode, val>>)
    ELSE Put(LoadBytes(pc, <<opcode, zp>>), zp, val)

InitAdc ==
    \E pc \in AluEntry, zp \in AluZeroPage, opcode \in AdcOpcodes,
       a \in Byte, m \in Byte, c \in BOOLEAN :
        Start([CPUDefault EXCEPT !.pc = pc, !.a = a, !.p.c = c],
              [BusDefault EXCEPT
                  !.bytes = OperandImage(pc, opcode, opcode = 105, zp, m)],
              [opcode |-> opcode, a |-> a, m |-> m, c |-> c])

NextAdc == StepOnce

SpecAdc == InitAdc /\ [][NextAdc]_vars

Bit7(v) == v \div 128

CarryIn == IF inp.c THEN 1 ELSE 0

\* C1: for every accumulator A, operand M and carry-in C, after ADC the
\* accumulator is (A+M+C) mod 256, the carry flag is set exactly when
\* A+M+C >= 256, the overflow flag exactly when bit 7 of both A xor A' and
\* M xor A' is set, Z exactly when A' = 0, and N equals bit 7 of A'.
C1_Adc ==
    (last.op = "step" /\ last.instr.op = "ADC") =>
        /\ fail = StatusNone
        /\ cpu.a = (inp.a + inp.m + CarryIn) % 256
        /\ cpu.p.c = (inp.a + inp.m + CarryIn >= 256)
        /\ cpu.p.v = (Bit7(inp.a) # Bit7(cpu.a) /\ Bit7(inp.m) # Bit7(cpu.a))
        /\ cpu.p.z = (cpu.a = 0)
        /\ cpu.p.n = (Bit7(cpu.a) = 1)

C1_Witness ==
    /\ last.op = "step"
    /\ last.instr = [op |-> "ADC", am |-> "Immediate"]
    /\ inp.a = 80 /\ inp.m = 208 /\ inp.c = TRUE
    /\ cpu.a = 33
    /\ cpu.p.c = TRUE /\ cpu.p.v = FALSE /\ cpu.p.n = FALSE /\ cpu.p.z = FALSE

-----------------------------------------------------------------------------
(* Specification of CMP, CPX and CPY: every register value and operand.    *)
(* The two registers that are not compared hold a different value.         *)

CmpOpcodes == {201, 197, 224, 228, 192, 196}
CmpImmediate == {201, 224, 192}
CmpOfA == {201, 197}
CmpOfX == {224, 228}
CmpOfY == {192, 196}

OtherReg(reg) == (reg + 85) % 256

InitCmp ==
    \E pc \in AluEntry, zp \in AluZeroPage, opcode \in CmpOpcodes,
       reg \in Byte, m \in Byte :
        Start([CPUDefault EXCEPT
                  !.pc = pc,
                  !.a = IF opcode \in CmpOfA THEN reg ELSE OtherReg(reg),
                  !.x = IF opcode \in CmpOfX THEN reg ELSE OtherReg(reg),
                  !.y = IF opcode \in CmpOfY THEN reg ELSE OtherReg(reg)],
              [BusDefault EXCEPT
                  !.bytes = OperandImage(pc, opcode, opcode \in CmpImmediate,
                                         zp, m)],
              [opcode |-> opcode, reg |-> reg, m |-> m])

NextCmp == StepOnce

SpecCmp == InitCmp /\ [][NextCmp]_vars

\* C2: for every register value reg and operand M, after CMP, CPX or CPY
\* the carry flag is set exactly when reg >= M, Z exactly when reg = M, N
\* equals bit 7 of (reg - M) mod 256, and the registers are unchanged.
C2_Compare ==
    (last.op = "step" /\ last.instr.op \in {"CMP", "CPX", "CPY"}) =>
        /\ fail = StatusNone
        /\ cpu.p.c = (inp.reg >= inp.m)
        /\ cpu.p.z = (inp.reg = inp.m)
        /\ cpu.p.n = (Bit7((inp.reg - inp.m + 256) % 256) = 1)
        /\ cpu.a = last.pre.cpu.a
        /\ cpu.x = last.pre.cpu.x
        /\ cpu.y = last.pre.cpu.y
        /\ (last.instr.op = "CMP") = (inp.opcode \in CmpOfA)
        /\ (last.instr.op = "CPX") = (inp.opcode \in CmpOfX)
        /\ (last.instr.op = "CPY") = (inp.opcode \in CmpOfY)

C2_Witness ==
    /\ last.op = "step"
    /\ last.instr = [op |-> "CPX", am |-> "ZeroPage"]
    /\ inp.reg = 16 /\ inp.m = 32
    /\ cpu.x = 16
    /\ cpu.p.c = FALSE /\ cpu.p.z = FALSE /\ cpu.p.n = TRUE

-----------------------------------------------------------------------------
(* Specification of the branches: one of the eight branch opcodes at pc,   *)
(* any offset byte after it, every combination of N, V, Z and C.           *)

BranchOpcodes == {16, 48, 80, 112, 144, 176, 208, 240}
BranchEntries == {0, 125, 1536, 65405, 65533, 65534}
BranchFlags == {p \in StatusRegisters : ~p.b /\ ~p.d /\ ~p.i}

InitBranch ==
    \E opcode \in BranchOpcodes, pc \in BranchEntries, d \in Byte,
       p \in BranchFlags :
        Start([CPUDefault EXCEPT !.pc = pc, !.p = p],
              [BusDefault EXCEPT !.bytes = LoadBytes(pc, <<opcode, d>>)],
              [opcode |-> opcode, pc |-> pc, d |-> d, p |-> p])

NextBranch == StepOnce

SpecBranch == InitBranch /\ [][NextBranch]_vars

Signed(d) == IF d >= 128 THEN d - 256 ELSE d

BranchTaken(opcode, p) ==
    CASE opcode = 16  -> ~p.n
      [] opcode = 48  -> p.n
      [] opcode = 80  -> ~p.v
      [] opcode = 112 -> p.v
      [] opcode = 144 -> ~p.c
      [] opcode = 176 -> p.c
      [] opcode = 208 -> ~p.z
      [] opcode = 240 -> p.z

AfterBranch == (inp.pc + 2) % U16

\* C3: for every branch instruction, every address P of the byte following
\* the branch and every signed offset d, the instruction completes with
\* PC = (P + d) mod 65536 when the condition holds, wrap-around at either
\* end included, and with PC = P when it does not.
C3_Branch ==
    (last.op = "step" /\ inp.opcode \in BranchOpcodes) =>
        /\ fail = StatusNone
        /\ cpu.pc = IF BranchTaken(inp.opcode, inp.p)
                    THEN (AfterBranch + Signed(inp.d) + U16) % U16
                    ELSE AfterBranch

-----------------------------------------------------------------------------
(* Specification of fetch_instruction: any PC, a byte stored at PC.        *)

FetchBytes == {0, 234}
PpuReadPorts == {8194, 8196, 8199}

InitFetch ==
    \E pc \in Word, v \in FetchBytes :
        Start([CPUDefault EXCEPT !.pc = pc],
              [BusDefault EXCEPT !.bytes = LoadBytes(pc, <<v>>)],
              [pc |-> pc, v |-> v])

NextFetch == FetchInstruction

SpecFetch == InitFetch /\ [][NextFetch]_vars

\* C4: for every PC in 0..65535, PC = $FFFF included, fetch_instruction
\* completes, returns the bus byte at PC and leaves PC = (PC + 1) mod 65536
\* with every other register, every flag and the bus unchanged.
C4_Fetch ==
    (last.op = "fetch") =>
        /\ fail = StatusNone
        /\ last.ret = BusIndex(last.pre.bus, last.pre.cpu.pc).v
        /\ (last.n = 1 /\ inp.pc \notin PpuReadPorts) => last.ret = inp.v
        /\ cpu.pc = (last.pre.cpu.pc + 1) % U16
        /\ [cpu EXCEPT !.pc = 0] = [last.pre.cpu EXCEPT !.pc = 0]
        /\ bus = last.pre.bus

-----------------------------------------------------------------------------
(* Specification of the stack: any stack pointer, any byte, push then pop; *)
(* the slot written and the slot below it hold another byte beforehand.    *)

StackJunk(byte) == 255 - byte

InitStack ==
    \E sp \in Byte, byte \in Byte :
        Start([CPUDefault EXCEPT !.sp = sp],
              [BusDefault EXCEPT !.bytes =
                  Put(Put(EmptyArr, STACK_PAGE + sp, StackJunk(byte)),
                      STACK_PAGE + WrappingSub8(sp, 1), StackJunk(byte))],
              [sp |-> sp, byte |-> byte])

NextStack == PushStack \/ PopStack

SpecStack == InitStack /\ [][NextStack]_vars

\* C5: for every stack pointer SP in 0..255 and every byte b, push_stack(b)
\* followed at once by pop_stack returns b and leaves SP as it was before
\* the push.
C5_PushPop ==
    (last.op = "pop") =>
        /\ fail = StatusNone
        /\ last.ret = inp.byte
        /\ cpu.sp = inp.sp
        /\ cpu.sp = last.pre.cpu.sp

C5_Witness ==
    /\ last.op = "pop"
    /\ inp.sp = 0 /\ inp.byte = 171
    /\ last.ret = 171
    /\ cpu.sp = 0
    /\ Get(bus.bytes, STACK_PAGE) = 171

-----------------------------------------------------------------------------
(* Specification of the status pushes: PHP or BRK at the entry point, in   *)
(* every one of the 128 flag states, the stack pointer at and near the     *)
(* ends of the stack page.                                                 *)

PushOpcodes == {8, 0}
PushEntry == {1536}
PushSp == {255, 1, 0}

InitPush ==
    \E opcode \in PushOpcodes, pc \in PushEntry, sp \in PushSp,
       p \in StatusRegisters :
        Start([CPUDefault EXCEPT !.pc = pc, !.sp = sp, !.p = p],
              [BusDefault EXCEPT !.bytes = LoadBytes(pc, <<opcode>>)],
              [opcode |-> opcode, sp |-> sp, p |-> p])

NextPush == StepOnce

SpecPush == InitPush /\ [][NextPush]_vars

(* the stack slot the status byte goes to: the first one for PHP, the      *)
(* third one for BRK, which pushes the return address first                *)
PushedStatus ==
    Get(bus.bytes,
        STACK_PAGE + (IF inp.opcode = 8 THEN inp.sp
                      ELSE WrappingSub8(inp.sp, 2)))

\* C7: in every flag state, the status byte PHP or BRK writes to the stack
\* has bits 5 and 4 set and bits 7, 6, 3, 2, 1, 0 equal to N, V, D, I, Z, C
\* at the moment of the push; PHP leaves every flag unchanged.
C7_PushedStatus ==
    (last.op = "step" /\ last.instr.op \in {"PHP", "BRK"}) =>
        /\ fail = StatusNone
        /\ Bit(PushedStatus, 5) = 1
        /\ Bit(PushedStatus, 4) = 1
        /\ (Bit(PushedStatus, 7) = 1) = inp.p.n
        /\ (Bit(PushedStatus, 6) = 1) = inp.p.v
        /\ (Bit(PushedStatus, 3) = 1) = inp.p.d
        /\ (Bit(PushedStatus, 2) = 1) = inp.p.i
        /\ (Bit(PushedStatus, 1) = 1) = inp.p.z
        /\ (Bit(PushedStatus, 0) = 1) = inp.p.c
        /\ (last.instr.op = "PHP") => cpu.p = inp.p
        /\ (last.instr.op = "PHP") = (inp.opcode = 8)

C7_Witness ==
    /\ last.op = "step"
    /\ last.instr.op = "PHP"
    /\ inp.p = StatusRegisterDefault
    /\ inp.sp = 0
    /\ PushedStatus = 48
    /\ cpu.sp = 255
    /\ cpu.p = StatusRegisterDefault

-----------------------------------------------------------------------------
(* Properties of the executor, checked under Spec.                         *)

\* C9: along any fetch-decode-execute sequence, neither the failure
\* 'invalid AddressingMode' of process_instruction nor the failure of
\* resolve_address_fetch for a mode without an address is reached: every
\* mode the decoder yields is one the executor accepts.
C9_ModesAccepted ==
    /\ fail \notin {PanicMode, PanicResolve}
    /\ (last.op = "step" /\ Ok(last.fetched)
            /\ last.instr.op = "STX" /\ last.instr.am = "ZeroPageY") =>
        fail = StatusNone

C9_Witness ==
    /\ last.op = "step"
    /\ last.byte = 150
    /\ last.instr = [op |-> "STX", am |-> "ZeroPageY"]
    /\ fail = StatusNone
    /\ last.pre.cpu.x = 255
    /\ Get(bus.bytes, WrappingAdd8(Get(last.pre.bus.bytes,
                                       last.pre.cpu.pc + 1),
                                   last.pre.cpu.y)) = 255

\* C10: when the fetched byte is outside the opcode table, the instruction
\* is Invalid(byte), process_instruction ends in the failure outcome with
\* every register, flag, bus byte, the PPU and the cycle counter as they
\* were when it was called, and no later instruction is executed.
C10_InvalidFatal ==
    /\ (last.op = "step" /\ Ok(last.fetched) /\ last.byte \notin SpecBytes) =>
        /\ last.instr = [op |-> "Invalid", byte |-> last.byte]
        /\ fail = PanicUndocumented
        /\ cpu = last.fetched.cpu
        /\ bus = last.fetched.bus
        /\ cpu.clock = last.pre.cpu.clock
        /\ [cpu EXCEPT !.pc = 0] = [last.pre.cpu EXCEPT !.pc = 0]
        /\ ~ ENABLED Step
    /\ (fail # StatusNone) => ~ ENABLED Step

C10_Witness ==
    /\ last.op = "step"
    /\ last.n = 2
    /\ last.byte = 2
    /\ last.instr = [op |-> "Invalid", byte |-> 2]
    /\ fail = PanicUndocumented
    /\ cpu.pc = last.pre.cpu.pc + 1
    /\ bus = last.pre.bus

-----------------------------------------------------------------------------
(* Specification of the countdown program: the 13 bytes of                 *)
(* sample_programs/countdown.txt at $0258, the rest of memory zero, run    *)
(* by run_cpu_program until PC = $0264, from the default CPU.               *)

CountdownProgram ==
    <<162, 16, 160, 10, 148, 0, 232, 136, 192, 0, 208, 248, 0>>
CountdownEntry == 600
CountdownExit == {612}

InitCountdown ==
    Start([CPUDefault EXCEPT !.pc = CountdownEntry],
          [BusDefault EXCEPT
              !.bytes = LoadBytes(CountdownEntry, CountdownProgram)],
          [exit |-> CountdownExit])

NextRun == RunIteration \/ RunReturn

SpecCountdown == InitCountdown /\ [][NextRun]_vars

(* the loop of run_cpu_program keeps running while it can                  *)
FairSpecCountdown == SpecCountdown /\ WF_vars(NextRun)

CountdownResult ==
    [k \in 16 .. 31 |-> Get(bus.bytes, k)]
        = [k \in 16 .. 31 |-> IF k <= 25 THEN 26 - k ELSE 0]

\* C11: the countdown program loaded at $0258 and run with the exit
\* predicate PC = $0264 terminates, and on termination bus bytes 16..31 are
\* 10, 9, 8, 7, 6, 5, 4, 3, 2, 1, 0, 0, 0, 0, 0, 0.
C11_Countdown ==
    /\ <>(last.op = "return")
    /\ [](last.op = "return" => (fail = StatusNone /\ CountdownResult))

C11_Witness ==
    /\ last.op = "return"
    /\ last.n = 52
    /\ cpu.pc = 612
    /\ cpu.x = 26 /\ cpu.y = 0
    /\ Get(bus.bytes, 16) = 10 /\ Get(bus.bytes, 25) = 1
    /\ Get(bus.bytes, 26) = 0

-----------------------------------------------------------------------------
(* Specification of the cartridge loader: a file image with its header,    *)
(* bytes at the ends and inside of the PRG bank and at the ends of the CHR *)
(* bank, loaded over a bus and a video memory that already hold bytes.     *)

PrgProbes == {0, 677, 16380, 16381, 16383}
ChrProbes == {0, 8191}
ProbeBytes == {0, 255}
NromEntryPoints == {32768, 49152}

InitNrom ==
    \E prg \in [PrgProbes -> ProbeBytes], chr \in [ChrProbes -> ProbeBytes],
       memory_entry_point \in NromEntryPoints :
        LET file == [k \in {0, 1, 2, 3}
                          \cup {INES_HEADER + i : i \in {j \in PrgProbes : prg[j] # 0}}
                          \cup {INES_HEADER + PRG_BANK + i :
                                    i \in {j \in ChrProbes : chr[j] # 0}}
                       |-> IF k < INES_HEADER THEN <<78, 69, 83, 26>>[k + 1]
                           ELSE IF k < INES_HEADER + PRG_BANK
                           THEN prg[k - INES_HEADER]
                           ELSE chr[k - INES_HEADER - PRG_BANK]]
            junk == [k \in {16, 32767, 32768, 33445, 49152, 49153, 65535}
                       |-> 119]
            video == [k \in {0, 5, 8191, 8192} |-> 51]
        IN  Start(CPUDefault,
                  [BusDefault EXCEPT !.bytes = junk, !.ppu.memory = video],
                  [file |-> file, memory_entry_point |-> memory_entry_point])

NextNrom == LoadNrom

SpecNrom == InitNrom /\ [][NextNrom]_vars

\* C12: after load_nrom_128 with entry point $8000 on a file image F, bus
\* byte $8000+i = bus byte $C000+i = F[16+i] for every i in 0..$3FFF, video
\* byte j = F[16+$4000+j] for every j in 0..$1FFF, and
\* PC = bus[$FFFC] + 256 * bus[$FFFD].
C12_LoadNrom ==
    (last.op = "load" /\ inp.memory_entry_point = 32768) =>
        /\ fail = StatusNone
        /\ \A i \in 0 .. 16383 :
              /\ Get(bus.bytes, 32768 + i) = Get(inp.file, 16 + i)
              /\ Get(bus.bytes, 49152 + i) = Get(inp.file, 16 + i)
        /\ \A j \in 0 .. 8191 :
              Get(bus.ppu.memory, j) = Get(inp.file, 16 + 16384 + j)
        /\ cpu.pc = Get(bus.bytes, 65532) + 256 * Get(bus.bytes, 65533)

C12_Witness ==
    /\ last.op = "load"
    /\ inp.memory_entry_point = 32768
    /\ Get(inp.file, 16 + 16380) = 255 /\ Get(inp.file, 16 + 16381) = 0
    /\ Get(inp.file, 16 + 677) = 255 /\ Get(inp.file, 16 + 16384) = 255
    /\ cpu.pc = 255
    /\ Get(bus.bytes, 33445) = 255 /\ Get(bus.bytes, 49829) = 255
    /\ Get(bus.bytes, 32768) = Get(inp.file, 16)
    /\ Get(bus.ppu.memory, 0) = 255 /\ Get(bus.ppu.memory, 8192) = 51
    /\ Get(bus.bytes, 32767) = 119

-----------------------------------------------------------------------------
(* Specification of run_cpu_program: two looping programs at $0600, run    *)
(* with an exit predicate that accepts no PC or one PC of the program.     *)
(* boundaries are the addresses of the opcodes the program executes.       *)

RunEntry == 6 * 256
RunPrograms ==
    {[image |-> <<169, 1, 76, 0, 6>>, boundaries |-> {1536, 1538}],
     [image |-> <<232, 232, 232, 208, 251>>,
      boundaries |-> {1536, 1537, 1538, 1539}]}
ExitSets == {{}} \cup {{a} : a \in RunEntry .. RunEntry + 6}

InitRun ==
    \E program \in RunPrograms, exit \in ExitSets :
        Start([CPUDefault EXCEPT !.pc = RunEntry],
              [BusDefault EXCEPT !.bytes = LoadBytes(RunEntry, program.image)],
              [exit |-> exit, boundaries |-> program.boundaries])

SpecRun == InitRun /\ [][NextRun]_vars

\* C13: run_cpu_program tests the exit predicate on PC only at instruction
\* boundaries: it returns only at a boundary where the predicate holds and
\* changes nothing doing so, executes no instruction from a boundary where
\* the predicate holds and none after the return, and does not return when
\* the predicate holds only for a PC inside an instruction.
C13_ExitAtBoundary ==
    /\ (last.op = "return") =>
          /\ exit_condition(cpu.pc)
          /\ cpu.pc \in inp.boundaries
          /\ Cur = last.pre
          /\ ~ ENABLED NextRun
    /\ (last.op = "step") => ~ exit_condition(last.pre.cpu.pc)
    /\ (fail = StatusNone /\ last.op # "return" /\ exit_condition(cpu.pc)) =>
          ENABLED RunReturn
    /\ (inp.exit \cap inp.boundaries = {}) => last.op # "return"
    /\ (fail = StatusNone /\ last.op # "return") => cpu.pc \in inp.boundaries

C13_Witness ==
    /\ last.op = "step"
    /\ last.n >= 4
    /\ inp.exit = {1537}
    /\ inp.boundaries = {1536, 1538}
    /\ last.fetched.cpu.pc = 1537
    /\ fail = StatusNone

-----------------------------------------------------------------------------
(* The frame loop of on_draw.  The CPU record carries the per-frame cycle   *)
(* accumulator time_since_last_frame beside the registers.                 *)

PPU_SCANLINES_PER_FRAME == 262
PPU_CYCLES_PER_SCANLINES == 341
PPU_CYCLES_PER_FRAME == PPU_SCANLINES_PER_FRAME * PPU_CYCLES_PER_SCANLINES
CPU_CYCLES_PER_FRAME == PPU_CYCLES_PER_FRAME \div 3

GEN_NMI == 128
NMI_VECTOR == 65530

(* the synthesized NMI: push PC high then low, push P with bit 4 clear and  *)
(* bit 5 set, set I, PC from the vector at $FFFA/$FFFB                      *)
(* (each intermediate machine is bound as the element of a one-element set) *)
NMI(m, minimum_ticks) ==
    CHOOSE done \in
        UNION { UNION { UNION { UNION { UNION {
            { [m |-> tick(SetCpu(vhi.m, [vhi.m.cpu EXCEPT
                          !.pc = AddrOf(vhi.v, vlo.v), !.p.i = TRUE]),
                          minimum_ticks),
               ticks |-> minimum_ticks]
              : vhi \in {MRead(vlo.m, NMI_VECTOR + 1)} }
            : vlo \in {MRead(m3, NMI_VECTOR)} }
            : m3 \in {push_stack(m2,
                          BitOr(BitAnd(to_byte(m2.cpu.p), 239), 32))} }
            : m2 \in {push_stack(m1, m0.cpu.pc % 256)} }
            : m1 \in {push_stack(m0, m0.cpu.pc \div 256)} }
            : m0 \in {m} } : TRUE

add_ticks(m, ticks) ==
    IF Ok(m) THEN [m EXCEPT !.cpu.time_since_last_frame = @ + ticks] ELSE m

(* faulty variant of frame_due: the budget itself is not yet a boundary     *)
frame_due_strict(m) == m.cpu.time_since_last_frame > CPU_CYCLES_PER_FRAME

frame_due(m) == m.cpu.time_since_last_frame >= CPU_CYCLES_PER_FRAME

(* faulty variant of nmi_enabled: PPUCTRL is not consulted                 *)
nmi_enabled_ignored(ppu) == TRUE

nmi_enabled(ppu) == BitAnd(ppu.ppu_ctrl, GEN_NMI) = GEN_NMI

(* faulty variant of end_of_frame: the loop is left at every frame         *)
(* boundary, whether or not an NMI was issued                              *)
end_of_frame_break_always(m, calls) ==
    LET reset == [m EXCEPT !.cpu.time_since_last_frame = 0]
        interrupted(r, n) ==
            [m |-> add_ticks(n.m, n.ticks),
             calls |-> calls \o
                 <<[call |-> "render_frame", ppu |-> r.bus.ppu],
                   [call |-> "execute_instruction", instr |-> [op |-> "NMI", am |-> "Implied"],
                    minimum_ticks |-> 7, pre |-> r, ticks |-> n.ticks]>>,
             break |-> TRUE]
    IN  IF Ok(m) /\ frame_due(m)
        THEN IF nmi_enabled(reset.bus.ppu)
             THEN interrupted(reset, NMI(reset, 7))
             ELSE [m |-> reset, calls |-> calls, break |-> TRUE]
        ELSE [m |-> m, calls |-> calls, break |-> FALSE]

(* the part of one pass of the loop that follows the instruction: m is the  *)
(* machine after the accumulator took the instruction's ticks; calls is    *)
(* the sequence of calls made on the CPU and the PPU in this pass           *)
end_of_frame(m, calls) ==
    LET reset == [m EXCEPT !.cpu.time_since_last_frame = 0]
        interrupted(r, n) ==
            [m |-> add_ticks(n.m, n.ticks),
             calls |-> calls \o
                 <<[call |-> "render_frame", ppu |-> r.bus.ppu],
                   [call |-> "execute_instruction", instr |-> [op |-> "NMI", am |-> "Implied"],
                    minimum_ticks |-> 7, pre |-> r, ticks |-> n.ticks]>>,
             break |-> TRUE]
    IN  IF Ok(m) /\ frame_due(m)
        THEN IF nmi_enabled(reset.bus.ppu)
             THEN interrupted(reset, NMI(reset, 7))
             ELSE [m |-> reset, calls |-> calls, break |-> FALSE]
        ELSE [m |-> m, calls |-> calls, break |-> FALSE]

MaxFrameSteps == 8

(* on_draw: one pass of the loop; a pass that breaks is the last of its    *)
(* call, and the redraw it requests starts the next call                   *)
FrameIteration ==
    /\ fail = StatusNone
    /\ last.n < MaxFrameSteps
    /\ \E f \in {fetch_instruction(Cur)} :
       \E d \in {map_byte_to_instruction(f.v)} :
       \E r \in {IF Ok(f.m)
                 THEN process_instruction(f.m, d.instr, d.ticks)
                 ELSE [m |-> f.m, ticks |-> 0]} :
       \E post \in {add_ticks(r.m, r.ticks)} :
       \E e \in {end_of_frame(post,
                     <<[call |-> "execute_instruction", instr |-> d.instr,
                        minimum_ticks |-> d.ticks, ticks |-> r.ticks,
                        post |-> post]>>)} :
           /\ SetCur(e.m)
           /\ last' = [op |-> "frame", n |-> last.n + 1, pre |-> Cur,
                       calls |-> e.calls, break |-> e.break]
    /\ UNCHANGED <<overflow_checks, inp>>

-----------------------------------------------------------------------------
(* Specification of the frame loop: a program at $0600 that writes PPUCTRL *)
(* and loops, entered with the accumulator at zero or a few cycles below   *)
(* the frame budget; the NMI vector points back at the program.            *)

FrameEntry == 6 * 256
FramePrograms == {<<169, 128, 141, 0, 32, 234, 76, 0, 6>>,
                  <<169, 16, 141, 0, 32, 234, 76, 0, 6>>}
FrameTimes == {0} \cup (CPU_CYCLES_PER_FRAME - 10 .. CPU_CYCLES_PER_FRAME - 1)
FrameCtrl == {0, 128}

InitFrame ==
    \E program \in FramePrograms, time \in FrameTimes, ctrl \in FrameCtrl :
        Start([a |-> 0, x |-> 0, y |-> 0, sp |-> 253, pc |-> FrameEntry,
               p |-> StatusRegisterDefault, clock |-> 0,
               time_since_last_frame |-> time],
              [BusDefault EXCEPT
                  !.bytes = LoadBytes(FrameEntry, program) @@
                            LoadBytes(NMI_VECTOR, <<0, 6>>),
                  !.ppu.ppu_ctrl = ctrl],
              [program |-> program])

NextFrame == FrameIteration

SpecFrame == InitFrame /\ [][NextFrame]_vars

NmiCalls ==
    {i \in DOMAIN last.calls :
        last.calls[i].call = "execute_instruction" /\ last.calls[i].instr.op = "NMI"}

RenderCalls == {i \in DOMAIN last.calls : last.calls[i].call = "render_frame"}

\* C14: in the frame loop a synthesized NMI is executed only in a pass whose
\* instruction left time_since_last_frame >= CPU_CYCLES_PER_FRAME (29780)
\* with PPUCTRL bit 7 set; the NMI is preceded by exactly one render_frame
\* call on the same PPU state, with no CPU instruction between the two, and
\* it is executed with 7 base cycles.
C14_FrameNmi ==
    /\ CPU_CYCLES_PER_FRAME = 29780
    /\ (last.op = "frame") =>
          \A i \in NmiCalls :
              /\ i = 3
              /\ last.calls[1].call = "execute_instruction"
              /\ last.calls[1].instr.op # "NMI"
              /\ last.calls[1].post.cpu.time_since_last_frame
                     >= CPU_CYCLES_PER_FRAME
              /\ Bit(last.calls[1].post.bus.ppu.ppu_ctrl, 7) = 1
              /\ RenderCalls = {i - 1}
              /\ last.calls[i - 1].ppu = last.calls[1].post.bus.ppu
              /\ last.calls[i - 1].ppu = last.calls[i].pre.bus.ppu
              /\ last.calls[i].pre.bus = last.calls[1].post.bus
              /\ last.calls[i].pre.cpu =
                     [last.calls[1].post.cpu EXCEPT !.time_since_last_frame = 0]
              /\ last.calls[i].minimum_ticks = 7
              /\ cpu.time_since_last_frame = last.calls[i].ticks
              /\ last.break

C14_Witness ==
    /\ last.op = "frame"
    /\ NmiCalls = {3}
    /\ last.calls[1].instr = [op |-> "STA", am |-> "Absolute"]
    /\ last.pre.bus.ppu.ppu_ctrl = 0
    /\ last.calls[1].post.cpu.time_since_last_frame = CPU_CYCLES_PER_FRAME + 3
    /\ cpu.pc = FrameEntry
    /\ fail = StatusNone

-----------------------------------------------------------------------------
(* Accesses to the bus, one at a time: bus[index] as a value is a read     *)
(* through Index, bus[index] = val is a write through IndexMut.  log is    *)
(* the history of the accesses made so far.                                *)

BusRead ==
    /\ fail = StatusNone
    /\ last.n < inp.ops
    /\ \E index \in inp.reads :
           LET read(r) ==
                   /\ SetCur(r.m)
                   /\ last' = [op |-> "read", n |-> last.n + 1, pre |-> Cur,
                               index |-> index, val |-> r.v,
                               log |-> Append(last.log,
                                   [op |-> "read", index |-> index,
                                    val |-> r.v])]
           IN  read(MRead(Cur, index))
    /\ UNCHANGED <<overflow_checks, inp>>

BusWrite ==
    /\ fail = StatusNone
    /\ last.n < inp.ops
    /\ \E index \in inp.writes, val \in inp.values :
           LET written(m) ==
                   /\ SetCur(m)
                   /\ last' = [op |-> "write", n |-> last.n + 1, pre |-> Cur,
                               index |-> index, val |-> val,
                               log |-> Append(last.log,
                                   [op |-> "write", index |-> index,
                                    val |-> val])]
           IN  written(MWrite(Cur, index, val))
    /\ UNCHANGED <<overflow_checks, inp>>

NextBus == BusRead \/ BusWrite

StartBus(i) ==
    /\ cpu = CPUDefault
    /\ bus = BusDefault
    /\ fail = StatusNone
    /\ overflow_checks \in BOOLEAN
    /\ inp = i
    /\ last = [op |-> "init", n |-> 0, log |-> << >>]

PPUCTRL_PORT == 8192
PPUSTATUS_PORT == 8194
PPUADDR_PORT == 8198
PPUDATA_PORT == 8199

-----------------------------------------------------------------------------
(* Specification of the PPU address register: writes of PPUCTRL, PPUADDR   *)
(* and PPUDATA and reads of PPUSTATUS and PPUDATA, from the default bus.   *)

MaxPpuOps == 5
PpuValues == {4, 255}

InitPpuAddr ==
    StartBus([reads |-> {PPUSTATUS_PORT, PPUDATA_PORT},
              writes |-> {PPUCTRL_PORT, PPUADDR_PORT, PPUDATA_PORT},
              values |-> PpuValues, ops |-> MaxPpuOps])

SpecPpuAddr == InitPpuAddr /\ [][NextBus]_vars

IsAccess == last.op \in {"read", "write"}

WritesTo(index) ==
    {i \in DOMAIN last.log :
        last.log[i].op = "write" /\ last.log[i].index = index}

SetMax(S) == CHOOSE i \in S : \A j \in S : j <= i

\* C15: writes to $2006 alternate under received_first_write, starting with
\* the toggle false: the first write of a pair stores its byte in the high
\* byte and sets the toggle, the second stores its byte in the low byte and
\* clears it; after any even number of $2006 writes the toggle is false and
\* the PPU address is (high << 8) | low of the last two written bytes.
C15_AddrLatch ==
    IsAccess =>
        LET w == WritesTo(PPUADDR_PORT)
            even == Cardinality(w) % 2 = 0
        IN  /\ bus.ppu.ppu_addr_received_first_write = ~even
            /\ (last.op = "write" /\ last.index = PPUADDR_PORT) =>
                  /\ ~even => bus.ppu.ppu_addr_high = last.val
                  /\ even => bus.ppu.ppu_addr_low = last.val
                  /\ even =>
                        PpuAddr(bus) =
                            last.log[SetMax(w \ {last.n})].val * 256 + last.val

\* C15 (amended): as above, and after an even number of $2006 writes the PPU
\* address is (high << 8) | low of the last two written bytes when no write
\* to $2007 came between the two; a $2007 write between them advances the
\* address, and its carry into the high byte stays.
C15_AddrLatchPaired ==
    IsAccess =>
        LET w == WritesTo(PPUADDR_PORT)
            even == Cardinality(w) % 2 = 0
        IN  /\ bus.ppu.ppu_addr_received_first_write = ~even
            /\ (last.op = "write" /\ last.index = PPUADDR_PORT) =>
                  /\ ~even => bus.ppu.ppu_addr_high = last.val
                  /\ even => bus.ppu.ppu_addr_low = last.val
                  /\ (even /\ WritesTo(PPUDATA_PORT) \cap
                               (SetMax(w \ {last.n}) .. last.n) = {}) =>
                        PpuAddr(bus) =
                            last.log[SetMax(w \ {last.n})].val * 256 + last.val

C15_Witness ==
    /\ last.op = "write"
    /\ last.index = PPUADDR_PORT
    /\ WritesTo(PPUADDR_PORT) = {1, 2, 4, 5}
    /\ WritesTo(PPUDATA_PORT) = {3}
    /\ last.log[4].val = 4
    /\ last.val = 255
    /\ PpuAddr(bus) = 1279
    /\ bus.ppu.ppu_addr_received_first_write = FALSE
    /\ fail = StatusNone

VramIncrement(b) == IF Bit(b.ppu.ppu_ctrl, 2) = 1 THEN 32 ELSE 1

\* C16: every access to $2007 through the bus, a read as well as a write,
\* advances the 16-bit PPU address by 1 when PPUCTRL bit 2 is clear and by
\* 32 when it is set, wrapping modulo 65536.
C16_PpuDataAdvance ==
    (IsAccess /\ last.index = PPUDATA_PORT) =>
        PpuAddr(bus) =
            (PpuAddr(last.pre.bus) + VramIncrement(last.pre.bus)) % 65536

-----------------------------------------------------------------------------
(* Specification of the bus: reads and writes at the eight addresses of    *)
(* the PPU window and at plain addresses on both sides of it, from the     *)
(* default bus.                                                            *)

MaxBusOps == 2
PpuWindow == 8192 .. 8199
PlainAddresses == {0, 2048, 8191, 8200, 65535}
BusValues == {0, 4, 255}

InitBus ==
    StartBus([reads |-> PlainAddresses \cup PpuWindow,
              writes |-> PlainAddresses \cup PpuWindow,
              values |-> BusValues, ops |-> MaxBusOps])

SpecBus == InitBus /\ [][NextBus]_vars

(* the byte most recently written to index in the history, 0 when none was *)
LastWritten(index) ==
    IF WritesTo(index) \ {last.n} = {} THEN 0
    ELSE last.log[SetMax(WritesTo(index) \ {last.n})].val

\* C17: for every bus address a outside $2000-$2007 and every byte v, a
\* write of v to a followed by a read of a returns v, and the write changes
\* only bus byte a: every other bus byte and the whole PPU state are left
\* unchanged.
C17_PlainMemory ==
    (IsAccess /\ last.index \notin PpuWindow) =>
        /\ fail = StatusNone
        /\ bus.ppu = last.pre.bus.ppu
        /\ (last.op = "write") =>
              /\ Get(bus.bytes, last.index) = last.val
              /\ \A k \in (DOMAIN bus.bytes \cup DOMAIN last.pre.bus.bytes)
                             \ {last.index} :
                     Get(bus.bytes, k) = Get(last.pre.bus.bytes, k)
        /\ (last.op = "read") =>
              /\ bus = last.pre.bus
              /\ last.val = LastWritten(last.index)

C17_Witness ==
    /\ last.op = "read"
    /\ last.n = 2
    /\ last.index = 8200
    /\ last.log[1] = [op |-> "write", index |-> 8200, val |-> 255]
    /\ last.val = 255
    /\ bus.ppu = PPUDefault

(* the PPU state behind each address of the window                         *)
PortValues(b, index) ==
    CASE index = 8192 -> {b.ppu.ppu_ctrl}
      [] index = 8193 -> {b.ppu.ppu_mask}
      [] index = 8194 -> {b.ppu.ppu_status}
      [] index = 8195 -> {b.ppu.oam_addr}
      [] index = 8196 -> {b.ppu.oam_data}
      [] index = 8197 -> {b.ppu.ppu_scroll}
      [] index = 8198 -> {b.ppu.ppu_addr_high, b.ppu.ppu_addr_low}
      [] index = 8199 -> {Get(b.ppu.memory, PpuAddr(b))}

\* C18: every bus read and write at an address in $2000-$2007 is redirected
\* to PPU state: a read returns the PPU state behind the address and not
\* the plain bus byte, a write leaves the plain bus byte array unmodified.
C18_WindowRedirected ==
    (IsAccess /\ last.index \in PpuWindow /\ fail = StatusNone) =>
        /\ (last.op = "read") => last.val \in PortValues(last.pre.bus, last.index)
        /\ (last.op = "write") => bus.bytes = last.pre.bus.bytes

-----------------------------------------------------------------------------
(* The background renderer of the PPU.  video memory is ppu.memory; a      *)
(* colour of the system palette is kept as the record of its index.        *)

FRAME_WIDTH == 256
FRAME_HEIGHT == 240
FRAME_BUFFER_SIZE == FRAME_WIDTH * FRAME_HEIGHT
TILE_SIZE == 8
FRAME_WIDTH_IN_TILES == FRAME_WIDTH \div TILE_SIZE
FRAME_HEIGHT_IN_TILES == FRAME_HEIGHT \div TILE_SIZE
ATTRIBUTE_TABLE_COVERAGE_SIZE == TILE_SIZE * 4

BG_PATTERN_TABLE == 16

SYSTEM_COLORS == 64

SYSTEM_COLOR_PALETTE ==
    [i \in 0 .. SYSTEM_COLORS - 1 |-> [system_color |-> i]]

fetch_nametable_byte(ppu, x_pixel, y_pixel) ==
    LET x == x_pixel \div TILE_SIZE
        y == y_pixel \div TILE_SIZE
    IN  Get(ppu.memory, y * FRAME_WIDTH_IN_TILES + x + 8192)

fetch_attribute_byte(ppu, x_pixel, y_pixel) ==
    LET x == x_pixel \div ATTRIBUTE_TABLE_COVERAGE_SIZE
        y == y_pixel \div ATTRIBUTE_TABLE_COVERAGE_SIZE
    IN  Get(ppu.memory, y * 8 + x + 9152)

(* faulty variant of fetch_attribute_byte_subpalette_index: the bottom     *)
(* left and the top right quadrant are exchanged                           *)
fetch_attribute_byte_subpalette_index_transposed(attribute_byte, x_pixel, y_pixel) ==
    LET x == x_pixel % ATTRIBUTE_TABLE_COVERAGE_SIZE
        y == y_pixel % ATTRIBUTE_TABLE_COVERAGE_SIZE
    IN  IF x > 15 /\ y > 15 THEN attribute_byte \div 64
        ELSE IF x > 15 THEN (attribute_byte \div 16) % 4
        ELSE IF y > 15 THEN (attribute_byte \div 4) % 4
        ELSE attribute_byte % 4

fetch_attribute_byte_subpalette_index(attribute_byte, x_pixel, y_pixel) ==
    LET x == x_pixel % ATTRIBUTE_TABLE_COVERAGE_SIZE
        y == y_pixel % ATTRIBUTE_TABLE_COVERAGE_SIZE
    IN  IF x > 15 /\ y > 15 THEN attribute_byte \div 64
        ELSE IF y > 15 THEN (attribute_byte \div 16) % 4
        ELSE IF x > 15 THEN (attribute_byte \div 4) % 4
        ELSE attribute_byte % 4

fetch_line_from_pattern_table(ppu, nametable_index, y_pixel) ==
    LET background_pattern_table ==
            IF BitAnd(ppu.ppu_ctrl, BG_PATTERN_TABLE) = BG_PATTERN_TABLE
            THEN 4096 ELSE 0
        index == background_pattern_table + nametable_index * 16
                 + (y_pixel % TILE_SIZE)
    IN  <<Get(ppu.memory, index), Get(ppu.memory, index + 8)>>

(* the four palette bytes render_tile reads for the tile of the pixel:     *)
(* the universal background byte and the three bytes of the subpalette     *)
tile_colors(ppu, x_pixel, y_pixel) ==
    LET with_palette(palette_index) ==
            <<Get(ppu.memory, 16128),
              Get(ppu.memory, 16129 + palette_index * 4),
              Get(ppu.memory, 16130 + palette_index * 4),
              Get(ppu.memory, 16131 + palette_index * 4)>>
    IN  with_palette(fetch_attribute_byte_subpalette_index(
            fetch_attribute_byte(ppu, x_pixel, y_pixel), x_pixel, y_pixel))

(* render_tile completes when each of the four palette bytes is an index   *)
(* of SYSTEM_COLOR_PALETTE; the lookup of any other byte is the            *)
(* index-out-of-bounds panic                                               *)
render_tile_ok(ppu, x_pixel, y_pixel) ==
    LET in_palette(color) == \A j \in 1 .. 4 : color[j] < SYSTEM_COLORS
    IN  in_palette(tile_colors(ppu, x_pixel, y_pixel))

(* render_tile: the 8 pixels it writes into its slice of the buffer        *)
render_tile(ppu, x_pixel, y_pixel) ==
    LET pixels(color, line) ==
            [i \in 0 .. 7 |->
                LET line_index == 128 \div (2 ^ i)
                IN  IF BitAnd(line_index, line[1]) = line_index
                       /\ BitAnd(line_index, line[2]) = line_index
                    THEN SYSTEM_COLOR_PALETTE[color[4]]
                    ELSE IF BitAnd(line_index, line[2]) = line_index
                    THEN SYSTEM_COLOR_PALETTE[color[3]]
                    ELSE IF BitAnd(line_index, line[1]) = line_index
                    THEN SYSTEM_COLOR_PALETTE[color[2]]
                    ELSE SYSTEM_COLOR_PALETTE[color[1]]]
    IN  pixels(tile_colors(ppu, x_pixel, y_pixel),
               fetch_line_from_pattern_table(ppu,
                   fetch_nametable_byte(ppu, x_pixel, y_pixel), y_pixel))

(* render_line: tile i is drawn with x_pixel = 8 * i into the pixels        *)
(* 8 * i .. 8 * i + 7 of the line                                          *)
render_line(ppu, y_pixel) ==
    [x \in 0 .. FRAME_WIDTH - 1 |->
        render_tile(ppu, TILE_SIZE * (x \div TILE_SIZE), y_pixel)[x % TILE_SIZE]]

render_line_ok(ppu, y_pixel) ==
    \A i \in 0 .. FRAME_WIDTH_IN_TILES - 1 :
        render_tile_ok(ppu, TILE_SIZE * i, y_pixel)

(* render_frame: line i is drawn with y_pixel = i into the pixels           *)
(* FRAME_WIDTH * i .. FRAME_WIDTH * i + FRAME_WIDTH - 1                    *)
render_frame(ppu) ==
    [k \in 0 .. FRAME_BUFFER_SIZE - 1 |->
        render_line(ppu, k \div FRAME_WIDTH)[k % FRAME_WIDTH]]

render_frame_ok(ppu) ==
    \A i \in 0 .. FRAME_HEIGHT - 1 : render_line_ok(ppu, i)

(* a call of render_frame on the PPU of the bus; the frame it returns is   *)
(* render_frame(last.pre.bus.ppu)                                          *)
RenderFrame ==
    /\ fail = StatusNone
    /\ last.op = "init"
    /\ LET rendered(ok) ==
               /\ fail' = IF ok THEN StatusNone ELSE PanicIndex
               /\ last' = [op |-> "render", n |-> last.n + 1, pre |-> Cur,
                           ok |-> ok]
       IN  rendered(render_frame_ok(bus.ppu))
    /\ UNCHANGED <<cpu, bus, overflow_checks, inp>>

-----------------------------------------------------------------------------
(* Specification of the renderer: video memories with a nametable of three *)
(* tile numbers, attribute bytes, pattern rows in both pattern tables and  *)
(* a palette, under both settings of PPUCTRL bit 4.                        *)

Sparse(f) == [k \in {j \in DOMAIN f : f[j] # 0} |-> f[k]]

TileNumbers == {1, 7, 254}
AttributeSeeds == {27, 228}
PatternSeeds == {5, 130}
Palettes == {"rising", "falling", "stray"}

PaletteByte(palette, k) ==
    CASE palette = "rising" -> (3 * k + 1) % 64
      [] palette = "falling" -> 63 - k
      [] palette = "stray" -> IF k = 14 THEN 64 ELSE (3 * k + 1) % 64

Video(tile, attribute, pattern, palette) ==
    Sparse([k \in 8192 .. 9151 |-> (tile + (k % 3)) % 256]
        @@ [k \in 9152 .. 9215 |-> (attribute + 85 * (k % 4)) % 256]
        @@ [k \in 0 .. 8191 |-> (pattern + 37 * k + 11 * (k \div 16)
                                   + 101 * (k \div 4096)) % 256]
        @@ [k \in 16128 .. 16143 |-> PaletteByte(palette, k - 16128)])

InitRender ==
    \E tile \in TileNumbers, attribute \in AttributeSeeds,
       pattern \in PatternSeeds, palette \in Palettes, ctrl \in {0, 16} :
        Start(CPUDefault,
              [BusDefault EXCEPT
                  !.ppu.ppu_ctrl = ctrl,
                  !.ppu.memory = Video(tile, attribute, pattern, palette)],
              [palette |-> palette])

NextRender == RenderFrame

SpecRender == InitRender /\ [][NextRender]_vars

ProbeCoordinates == (0 .. 39) \cup (216 .. 239)
ProbePixels == ProbeCoordinates \X ProbeCoordinates

(* the palette byte the pixel (x, y) shows                                  *)
PixelSubpalette(ppu, x, y) ==
    LET tx == x \div 8
        ty == y \div 8
        attribute_byte == Get(ppu.memory, 9152 + (ty \div 4) * 8 + (tx \div 4))
        offset == (IF tx % 4 >= 2 THEN 2 ELSE 0) + (IF ty % 4 >= 2 THEN 4 ELSE 0)
    IN  (attribute_byte \div (2 ^ offset)) % 4

PixelColourIndex(ppu, x, y) ==
    LET tx == x \div 8
        ty == y \div 8
        nametable_byte == Get(ppu.memory, 8192 + ty * 32 + tx)
        base == IF Bit(ppu.ppu_ctrl, 4) = 1 THEN 4096 ELSE 0
    IN  2 * Bit(Get(ppu.memory, base + nametable_byte * 16 + (y % 8) + 8), 7 - (x % 8))
        + Bit(Get(ppu.memory, base + nametable_byte * 16 + (y % 8)), 7 - (x % 8))

PixelPaletteByte(ppu, x, y) ==
    IF PixelColourIndex(ppu, x, y) = 0 THEN Get(ppu.memory, 16128)
    ELSE Get(ppu.memory, 16129 + PixelSubpalette(ppu, x, y) * 4
                         + (PixelColourIndex(ppu, x, y) - 1))

-----------------------------------------------------------------------------
(* Specification of SBC: every accumulator, operand and carry-in, with the *)
(* operand immediate and in the zero page.                                 *)

SbcOpcodes == {233, 229}

InitSbc ==
    \E pc \in AluEntry, zp \in AluZeroPage, opcode \in SbcOpcodes,
       a \in Byte, m \in Byte, c \in BOOLEAN :
        Start([CPUDefault EXCEPT !.pc = pc, !.a = a, !.p.c = c],
              [BusDefault EXCEPT
                  !.bytes = OperandImage(pc, opcode, opcode = 233, zp, m)],
              [opcode |-> opcode, a |-> a, m |-> m, c |-> c, zp |-> zp])

NextSbc == StepOnce

SpecSbc == InitSbc /\ [][NextSbc]_vars

(* the machine ADC leaves when it is executed in place of the SBC of the   *)
(* last step, on the operand M xor $FF stored where SBC found M             *)
AdcOfComplement ==
    LET operand == IF last.instr.am = "Immediate" THEN last.fetched.cpu.pc
                   ELSE inp.zp
    IN  ADC([last.fetched EXCEPT
                !.bus.bytes = Put(@, operand, BitXor(inp.m, 255))],
            last.instr.am).m

\* C20: SBC equals ADC applied to the one's complement of the operand: for
\* every A, M and carry-in C, SBC M leaves the accumulator and the N, V, Z,
\* C flags that ADC (M xor $FF) leaves from the same state; A' is
\* (A - M - (1 - C)) mod 256 and C' is set exactly when A >= M + (1 - C).
C20_SbcAsAdc ==
    (last.op = "step" /\ last.instr.op = "SBC") =>
        /\ fail = StatusNone
        /\ LET same(adc) ==
                   /\ adc.fail = StatusNone
                   /\ cpu.a = adc.cpu.a
                   /\ cpu.p.n = adc.cpu.p.n
                   /\ cpu.p.v = adc.cpu.p.v
                   /\ cpu.p.z = adc.cpu.p.z
                   /\ cpu.p.c = adc.cpu.p.c
           IN  same(AdcOfComplement)
        /\ cpu.a = (inp.a - inp.m - (1 - CarryIn) + 256) % 256
        /\ cpu.p.c = (inp.a >= inp.m + (1 - CarryIn))

C20_Witness ==
    /\ last.op = "step"
    /\ last.instr = [op |-> "SBC", am |-> "Immediate"]
    /\ inp.a = 255 /\ inp.m = 255 /\ inp.c = TRUE
    /\ cpu.a = 0
    /\ cpu.p.z = TRUE /\ cpu.p.c = TRUE /\ cpu.p.v = FALSE /\ cpu.p.n = FALSE

-----------------------------------------------------------------------------
(* Cycles of the branches, under SpecBranch.                               *)

-----------------------------------------------------------------------------
(* Specification of the page-cross cycle: every opcode of the nine reading *)
(* instructions and of the three stores, with operand bytes, index         *)
(* registers and zero-page pointers on both sides of a page boundary, the  *)
(* wrap from $FFFF to $0000 included.                                      *)

CrossMnemonics == {"ADC", "AND", "CMP", "EOR", "LDA", "LDX", "LDY", "ORA", "SBC"}
StoreMnemonics == {"STA", "STX", "STY"}
CrossOpcodes ==
    {r[1] : r \in {q \in OpcodeRows : q[2] \in CrossMnemonics \cup StoreMnemonics}}
CrossLo == {16, 240, 255}
CrossHi == {2, 255}
CrossIndex == {0, 1, 16, 255}
CrossPointers == {<<255, 2>>, <<240, 255>>}
IndexedModes == {"AbsoluteX", "AbsoluteY", "IndirectY"}

InitCross ==
    \E pc \in AluEntry, opcode \in CrossOpcodes, lo \in CrossLo, hi \in CrossHi,
       x \in CrossIndex, y \in CrossIndex, ptr \in CrossPointers :
        Start([CPUDefault EXCEPT !.pc = pc, !.x = x, !.y = y, !.a = 129],
              [BusDefault EXCEPT
                  !.bytes = Put(Put(LoadBytes(pc, <<opcode, lo, hi>>),
                                    lo, ptr[1]),
                                lo + 1, ptr[2])],
              [opcode |-> opcode, lo |-> lo, hi |-> hi, x |-> x, y |-> y,
               ptr |-> ptr])

NextCross == StepOnce

SpecCross == InitCross /\ [][NextCross]_vars

(* the un-indexed base address and the index of the executed instruction   *)
CrossBase ==
    IF last.instr.am = "IndirectY" THEN inp.ptr[2] * 256 + inp.ptr[1]
    ELSE inp.hi * 256 + inp.lo

CrossIndexValue == IF last.instr.am = "AbsoluteX" THEN inp.x ELSE inp.y

PageCrossed ==
    /\ last.instr.am \in IndexedModes
    /\ CrossBase \div 256 # ((CrossBase + CrossIndexValue) % U16) \div 256

\* C22: for ADC, AND, CMP, EOR, LDA, LDX, LDY, ORA and SBC,
\* process_instruction returns base cycles + 1 exactly when the mode is
\* AbsoluteX, AbsoluteY or IndirectY and the high byte of the un-indexed base
\* address differs from the high byte of base + index (16-bit wrap), and
\* exactly the base cycles in every other case.
C22_ReadCrossCycle ==
    (last.op = "step" /\ last.instr.op \in CrossMnemonics) =>
        /\ fail = StatusNone
        /\ last.minimum_ticks = OpcodeTable[inp.opcode][4]
        /\ last.ticks = last.minimum_ticks + (IF PageCrossed THEN 1 ELSE 0)

C22_Witness ==
    /\ last.op = "step"
    /\ last.instr = [op |-> "LDA", am |-> "IndirectY"]
    /\ inp.ptr = <<255, 2>> /\ inp.y = 1
    /\ last.minimum_ticks = 5
    /\ last.ticks = 6
    /\ fail = StatusNone

\* C23: for STA, STX and STY in every mode, process_instruction returns
\* exactly the decoder's base cycle count (5, 5 and 6 for STA AbsoluteX,
\* AbsoluteY and IndirectY), whether or not base + index crosses a page.
C23_StoreCycles ==
    (last.op = "step" /\ last.instr.op \in StoreMnemonics) =>
        /\ fail = StatusNone
        /\ last.ticks = last.minimum_ticks
        /\ (last.instr = [op |-> "STA", am |-> "AbsoluteX"]) => last.ticks = 5
        /\ (last.instr = [op |-> "STA", am |-> "AbsoluteY"]) => last.ticks = 5
        /\ (last.instr = [op |-> "STA", am |-> "IndirectY"]) => last.ticks = 6

-----------------------------------------------------------------------------
(* Specification of subroutine calls: JSR t at address a with stack        *)
(* pointer S, and at t a subroutine body that ends in RTS.  The bodies      *)
(* leave the stack alone, use it and restore it, leave SP moved, or         *)
(* overwrite a byte of the stack page.                                     *)

MaxCallSteps == 5

CallStep ==
    /\ fail = StatusNone
    /\ last.n < MaxCallSteps
    /\ Iterate

CallEntries == {1536, 1790}
CallTargets == {768, 2047}
CallSp == {255, 253, 1, 0}
CallBodies ==
    { <<96>>,                          \* RTS
      <<234, 96>>,                     \* NOP; RTS
      <<72, 104, 96>>,                 \* PHA; PLA; RTS
      <<72, 96>>,                      \* PHA; RTS
      <<169, 1, 141, 255, 1, 96>> }    \* LDA #1; STA $01FF; RTS

InitCall ==
    \E a \in CallEntries, t \in CallTargets, sp \in CallSp, body \in CallBodies :
        Start([CPUDefault EXCEPT !.pc = a, !.sp = sp, !.a = 129],
              [BusDefault EXCEPT
                  !.bytes = LoadBytes(a, <<32, t % 256, t \div 256>>)
                            @@ LoadBytes(t, body)],
              [a |-> a, t |-> t, sp |-> sp, body |-> body])

NextCall == CallStep

SpecCall == InitCall /\ [][NextCall]_vars

(* the stack as JSR leaves it                                              *)
ReturnHiAt == STACK_PAGE + inp.sp
ReturnLoAt == STACK_PAGE + ((inp.sp + 255) % 256)
SpAfterJsr == (inp.sp + 254) % 256

JsrFrameIntact(m) ==
    /\ m.cpu.sp = SpAfterJsr
    /\ Get(m.bus.bytes, ReturnHiAt) = (inp.a + 2) \div 256
    /\ Get(m.bus.bytes, ReturnLoAt) = (inp.a + 2) % 256

\* C24: after JSR at address a with absolute target t and stack pointer S,
\* PC = t, SP = (S - 2) mod 256, byte $0100+S holds the high byte and byte
\* $0100+((S-1) mod 256) the low byte of a+2; and an RTS executed later with
\* SP and those two bytes as JSR left them sets PC = a+3 and SP = S.
C24_JsrRts ==
    /\ (last.op = "step" /\ last.n = 1) =>
          /\ last.instr = [op |-> "JSR", am |-> "Absolute"]
          /\ fail = StatusNone
          /\ cpu.pc = inp.t
          /\ JsrFrameIntact(Cur)
    /\ (last.op = "step" /\ last.n > 1 /\ last.instr.op = "RTS"
            /\ JsrFrameIntact(last.pre)) =>
          /\ fail = StatusNone
          /\ cpu.pc = inp.a + 3
          /\ cpu.sp = inp.sp

C24_Witness ==
    /\ last.op = "step"
    /\ last.n = 4
    /\ last.instr.op = "RTS"
    /\ inp.body = <<72, 104, 96>>
    /\ inp.a = 1790 /\ inp.sp = 0
    /\ JsrFrameIntact(last.pre)
    /\ Get(bus.bytes, 256) = 7 /\ Get(bus.bytes, 511) = 0
    /\ cpu.pc = 1793 /\ cpu.sp = 0

-----------------------------------------------------------------------------
(* Specification of BRK and RTI: BRK at address a with stack pointer S in  *)
(* every flag state, the vector at $FFFE/$FFFF pointing to a handler that  *)
(* ends in RTI.  The handlers leave the stack and the flags alone, change  *)
(* flags, use the stack and restore it, or leave SP moved.                 *)

MaxBreakSteps == 4

BreakStep ==
    /\ fail = StatusNone
    /\ last.n < MaxBreakSteps
    /\ Iterate

BreakEntries == {1536, 1791}
BreakHandlers == {768, 13567, 1025}
BreakSp == {255, 2, 1, 0}
BreakBodies ==
    { <<64>>,                \* RTI
      <<56, 248, 64>>,       \* SEC; SED; RTI
      <<72, 104, 64>>,       \* PHA; PLA; RTI
      <<104, 64>> }          \* PLA; RTI

InitBreak ==
    \E a \in BreakEntries, h \in BreakHandlers, sp \in BreakSp,
       p \in StatusRegisters, body \in BreakBodies :
        Start([CPUDefault EXCEPT !.pc = a, !.sp = sp, !.p = p,
                                 !.a = 129, !.x = 7, !.y = 66],
              [BusDefault EXCEPT
                  !.bytes = LoadBytes(65534, <<h % 256, h \div 256>>)
                            @@ LoadBytes(h, body)],
              [a |-> a, h |-> h, sp |-> sp, p |-> p, body |-> body])

NextBreak == BreakStep

SpecBreak == InitBreak /\ [][NextBreak]_vars

FlagValue(f, weight) == IF f THEN weight ELSE 0

(* the byte N V 1 1 D I Z C of a flag state                                *)
BreakStatusByte(p) ==
    FlagValue(p.n, 128) + FlagValue(p.v, 64) + 32 + 16 + FlagValue(p.d, 8)
    + FlagValue(p.i, 4) + FlagValue(p.z, 2) + FlagValue(p.c, 1)

(* the three bytes BRK at address a with stack pointer sp and flags p      *)
(* leaves on the stack of machine m, and the stack pointer below them      *)
BrkFrame(m, a, sp, p) ==
    /\ m.cpu.sp = (sp + 253) % 256
    /\ Get(m.bus.bytes, STACK_PAGE + sp) = (a + 2) \div 256
    /\ Get(m.bus.bytes, STACK_PAGE + ((sp + 255) % 256)) = (a + 2) % 256
    /\ Get(m.bus.bytes, STACK_PAGE + ((sp + 254) % 256)) = BreakStatusByte(p)

\* C25: BRK at opcode address a with stack pointer S pushes the high byte of
\* a+2, the low byte of a+2 and the status byte with bits 4 and 5 set and the
\* I bit as it was before the BRK; afterwards I = 1, PC is the word at
\* $FFFE/$FFFF, SP = (S - 3) mod 256, A, X, Y and the other flags are
\* unchanged, and 7 cycles are returned.
C25_Brk ==
    (last.op = "step" /\ last.instr.op = "BRK") =>
        /\ fail = StatusNone
        /\ BrkFrame(Cur, last.pre.cpu.pc, last.pre.cpu.sp, last.pre.cpu.p)
        /\ cpu.p = [last.pre.cpu.p EXCEPT !.i = TRUE]
        /\ cpu.pc = Get(last.pre.bus.bytes, 65534)
                    + 256 * Get(last.pre.bus.bytes, 65535)
        /\ cpu.a = last.pre.cpu.a
        /\ cpu.x = last.pre.cpu.x
        /\ cpu.y = last.pre.cpu.y
        /\ last.ticks = 7
        /\ cpu.clock = last.pre.cpu.clock + 7

C25_Witness ==
    /\ last.op = "step"
    /\ last.n = 1
    /\ last.instr.op = "BRK"
    /\ inp.a = 1791 /\ inp.sp = 1 /\ inp.h = 13567
    /\ inp.p = [StatusRegisterDefault EXCEPT !.c = TRUE, !.n = TRUE]
    /\ Get(bus.bytes, 257) = 7
    /\ Get(bus.bytes, 256) = 1
    /\ Get(bus.bytes, 511) = 177
    /\ cpu.sp = 254
    /\ cpu.pc = 13567
    /\ cpu.p.i = TRUE

\* C26: if BRK is executed at opcode address a and the handler leaves SP and
\* the three pushed stack bytes as BRK left them, the following RTI sets
\* PC = a+2, restores SP to its value before the BRK, and restores N, V, D,
\* I, Z and C to their values from before the BRK.
C26_BrkRti ==
    (last.op = "step" /\ last.n > 1 /\ last.instr.op = "RTI"
        /\ BrkFrame(last.pre, inp.a, inp.sp, inp.p)) =>
        /\ fail = StatusNone
        /\ cpu.pc = inp.a + 2
        /\ cpu.sp = inp.sp
        /\ cpu.p.n = inp.p.n
        /\ cpu.p.v = inp.p.v
        /\ cpu.p.d = inp.p.d
        /\ cpu.p.i = inp.p.i
        /\ cpu.p.z = inp.p.z
        /\ cpu.p.c = inp.p.c

C26_Witness ==
    /\ last.op = "step"
    /\ last.n = 4
    /\ last.instr.op = "RTI"
    /\ inp.body = <<56, 248, 64>>
    /\ inp.a = 1536 /\ inp.sp = 0
    /\ inp.p = [StatusRegisterDefault EXCEPT !.v = TRUE]
    /\ last.pre.cpu.p.c = TRUE /\ last.pre.cpu.p.d = TRUE
    /\ last.pre.cpu.p.i = TRUE
    /\ BrkFrame(last.pre, inp.a, inp.sp, inp.p)
    /\ cpu.pc = 1538 /\ cpu.sp = 0
    /\ cpu.p = [StatusRegisterDefault EXCEPT !.v = TRUE]

-----------------------------------------------------------------------------
(* Specification of PLP and RTI: every byte on top of the stack, popped    *)
(* into every flag state.                                                  *)

PullOpcodes == {40, 64}
PullSp == {252, 255}

InitPull ==
    \E pc \in AluEntry, opcode \in PullOpcodes, sp \in PullSp, byte \in Byte,
       p \in StatusRegisters :
        Start([CPUDefault EXCEPT !.pc = pc, !.sp = sp, !.p = p],
              [BusDefault EXCEPT
                  !.bytes = Put(Put(LoadBytes(pc, <<opcode>>),
                                    STACK_PAGE + ((sp + 1) % 256), byte),
                                STACK_PAGE + ((sp + 3) % 256), 3)],
              [opcode |-> opcode, sp |-> sp, byte |-> byte, p |-> p])

NextPull == StepOnce

SpecPull == InitPull /\ [][NextPull]_vars

(* the machine before the step with the byte on top of the stack replaced  *)
WithPulledByte(byte) ==
    [last.fetched EXCEPT
        !.bus.bytes = Put(@, STACK_PAGE + ((inp.sp + 1) % 256), byte)]

-----------------------------------------------------------------------------
(* Specification of the PPU data port: writes of PPUCTRL, PPUSCROLL,       *)
(* PPUADDR and PPUDATA in any order, from the default bus.  The values     *)
(* reach the last byte of video memory and addresses outside it.           *)

PPUSCROLL_PORT == 8197
DataValues == {63, 255}

InitPpuData ==
    StartBus([reads |-> {},
              writes |-> {PPUCTRL_PORT, PPUSCROLL_PORT, PPUADDR_PORT,
                          PPUDATA_PORT},
              values |-> DataValues, ops |-> MaxPpuOps])

NextPpuData == BusWrite

SpecPpuData == InitPpuData /\ [][NextPpuData]_vars

(* the history ends with two $2006 writes at j and j+1, made with the      *)
(* toggle false, followed by writes to $2007 only                          *)
DataRun(j) ==
    /\ j \in WritesTo(PPUADDR_PORT)
    /\ j + 1 \in WritesTo(PPUADDR_PORT)
    /\ Cardinality({i \in WritesTo(PPUADDR_PORT) : i < j}) % 2 = 0
    /\ j + 2 <= last.n
    /\ \A i \in j + 2 .. last.n : i \in WritesTo(PPUDATA_PORT)

\* C28: after two $2006 writes h then l made with the toggle false, giving
\* a = (h << 8) | l, k consecutive writes of b1..bk to $2007 with
\* a + (k-1)*inc < $4000 (inc = 32 if PPUCTRL bit 2 is set, else 1) leave
\* video[a + (i-1)*inc] = bi for every i in 1..k, every other video byte
\* unchanged, and the PPU address equal to a + k*inc.
C28_SequentialWrites ==
    (last.op = "write") =>
        \A j \in 1 .. last.n :
            DataRun(j) =>
                LET a == last.log[j].val * 256 + last.log[j + 1].val
                    k == last.n - j - 1
                    inc == VramIncrement(bus)
                IN  (a + (k - 1) * inc < PPU_MEMORY_SIZE) =>
                        /\ fail = StatusNone
                        /\ \A i \in 1 .. k :
                              Get(bus.ppu.memory, a + (i - 1) * inc)
                                  = last.log[j + 1 + i].val
                        /\ bus.ppu.memory =
                              Put(last.pre.bus.ppu.memory,
                                  a + (k - 1) * inc, last.val)
                        /\ (j = 1) =>
                              DOMAIN bus.ppu.memory =
                                  {a + (i - 1) * inc : i \in 1 .. k}
                        /\ PpuAddr(bus) = a + k * inc

C28_Witness ==
    /\ last.op = "write"
    /\ last.n = 5
    /\ WritesTo(PPUCTRL_PORT) = {1}
    /\ DataRun(2)
    /\ last.log[2].val = 63 /\ last.log[3].val = 63
    /\ last.log[4].val = 255 /\ last.log[5].val = 63
    /\ VramIncrement(bus) = 32
    /\ Get(bus.ppu.memory, 16191) = 255
    /\ Get(bus.ppu.memory, 16223) = 63
    /\ PpuAddr(bus) = 16255
    /\ fail = StatusNone

\* C29: the write toggle is shared by $2005 and $2006: every write to $2005
\* flips received_first_write just as every write to $2006 does, so a single
\* $2005 write between two $2006 writes changes which PPU address byte the
\* second $2006 write fills.
C29_SharedToggle ==
    (last.op = "write" /\ fail = StatusNone) =>
        /\ (last.index \in {PPUSCROLL_PORT, PPUADDR_PORT}) =>
              bus.ppu.ppu_addr_received_first_write
                  = ~last.pre.bus.ppu.ppu_addr_received_first_write
        /\ (last.index = PPUADDR_PORT) =>
              LET flips == Cardinality(WritesTo(PPUSCROLL_PORT)
                                       \cup WritesTo(PPUADDR_PORT))
              IN  /\ (flips % 2 = 1) =>
                        /\ bus.ppu.ppu_addr_high = last.val
                        /\ bus.ppu.ppu_addr_low = last.pre.bus.ppu.ppu_addr_low
                  /\ (flips % 2 = 0) =>
                        /\ bus.ppu.ppu_addr_low = last.val
                        /\ bus.ppu.ppu_addr_high
                               = last.pre.bus.ppu.ppu_addr_high

-----------------------------------------------------------------------------
(* Specification of the indirect jump: JMP (P) for pointers inside a page, *)
(* on the last byte of a page and at the ends of memory.  The byte after   *)
(* the pointer holds a value no target high byte takes when it is not the  *)
(* byte the high byte is read from.                                        *)

JmpPointers == {255, 511, 767, 768, 4660, 33023, 65534, 65535}
JmpLo == {0, 52, 255}
JmpHi == {0, 18, 255}
JmpDecoy == {86}

(* the address the high byte of the target is read from                    *)
JmpHiAt(P) == (P \div 256) * 256 + ((P + 1) % 256)

InitJmp ==
    \E pc \in AluEntry, P \in JmpPointers, lo \in JmpLo, hi \in JmpHi,
       decoy \in JmpDecoy :
        Start([CPUDefault EXCEPT !.pc = pc],
              [BusDefault EXCEPT
                  !.bytes = Put(Put(Put(LoadBytes(pc, <<108, P % 256,
                                                       P \div 256>>),
                                        (P + 1) % U16, decoy),
                                    JmpHiAt(P), hi),
                                P, lo)],
              [P |-> P, lo |-> lo, hi |-> hi, decoy |-> decoy])

NextJmp == StepOnce

SpecJmp == InitJmp /\ [][NextJmp]_vars

\* C30: for every 16-bit pointer P fetched as the operand of an indirect
\* JMP, the new PC has low byte bus[P] and high byte
\* bus[(P & $FF00) | ((P+1) & $FF)]; for P = $xxFF the high byte is read
\* from $xx00 and not from P+1.
C30_IndirectJmp ==
    (last.op = "step" /\ last.instr = [op |-> "JMP", am |-> "Indirect"]) =>
        /\ fail = StatusNone
        /\ cpu.pc % 256 = Get(last.pre.bus.bytes, inp.P)
        /\ cpu.pc \div 256 = Get(last.pre.bus.bytes, JmpHiAt(inp.P))
        /\ cpu.pc = inp.hi * 256 + inp.lo
        /\ (inp.P % 256 = 255) =>
              /\ JmpHiAt(inp.P) = inp.P - 255
              /\ Get(last.pre.bus.bytes, (inp.P + 1) % U16) = inp.decoy
              /\ cpu.pc \div 256 # inp.decoy

C30_Witness ==
    /\ last.op = "step"
    /\ last.instr = [op |-> "JMP", am |-> "Indirect"]
    /\ inp.P = 767 /\ inp.lo = 52 /\ inp.hi = 18
    /\ Get(last.pre.bus.bytes, 767) = 52
    /\ Get(last.pre.bus.bytes, 512) = 18
    /\ Get(last.pre.bus.bytes, 768) = 86
    /\ cpu.pc = 4660
    /\ fail = StatusNone

-----------------------------------------------------------------------------
(* Specification of IndirectY addressing: STA (zp),Y for every operand     *)
(* byte zp, with the pointer bytes at zp and at (zp+1) mod 256 and another *)
(* byte at $0100.  The store shows the effective address, the returned     *)
(* cycles the page-crossed flag.                                           *)

PointerLo == {0, 255}
PointerHi == {2, 255}
PointerY == {0, 1, 255}
StackBase == {3}

InitIndirectY ==
    \E pc \in AluEntry, zp \in Byte, lo \in PointerLo, hi \in PointerHi,
       y \in PointerY, above \in StackBase :
        Start([CPUDefault EXCEPT !.pc = pc, !.y = y, !.a = 129],
              [BusDefault EXCEPT
                  !.bytes = Put(Put(Put(LoadBytes(pc, <<145, zp>>),
                                        STACK_PAGE, above),
                                    (zp + 1) % 256, hi),
                                zp, lo)],
              [zp |-> zp, lo |-> lo, hi |-> hi, y |-> y, above |-> above])

NextIndirectY == StepOnce

SpecIndirectY == InitIndirectY /\ [][NextIndirectY]_vars

\* C31: IndirectY addressing reads its base pointer entirely from the zero
\* page: for every operand byte zp, zp = $FF included, the base low byte is
\* bus[zp] and the base high byte is bus[(zp+1) mod 256]; the effective
\* address is (base + Y) mod 65536 and page-crossed is true exactly when the
\* high bytes of base and effective address differ.
C31_IndirectYZeroPage ==
    (last.op = "step" /\ last.instr = [op |-> "STA", am |-> "IndirectY"]) =>
        LET base == Get(last.pre.bus.bytes, (inp.zp + 1) % 256) * 256
                    + Get(last.pre.bus.bytes, inp.zp)
            effective == (base + inp.y) % U16
            crossed == base \div 256 # effective \div 256
        IN  /\ fail = StatusNone
            /\ bus.bytes = Put(last.pre.bus.bytes, effective, last.pre.cpu.a)
            /\ last.ticks = last.minimum_ticks + (IF crossed THEN 1 ELSE 0)

-----------------------------------------------------------------------------
(* Specification of the shifts and rotates on memory: every opcode of ASL, *)
(* LSR, ROL and ROR with a memory mode, the operand byte M at the          *)
(* effective address, an accumulator that differs from M, either carry.    *)

ShiftMnemonics == {"ASL", "LSR", "ROL", "ROR"}
ShiftOpcodes ==
    {r[1] : r \in {q \in OpcodeRows :
                      q[2] \in ShiftMnemonics /\ q[3] \in ModesRmw}}
ShiftOperands == {0, 1, 85, 128, 129, 255}
ShiftAccumulators == {0, 66, 255}
ShiftX == {1}

(* the effective address of operand bytes <<16, 2>> in the opcode's mode    *)
ShiftAddress(opcode, x) ==
    LET am == OpcodeTable[opcode][3]
    IN  CASE am = "ZeroPage" -> 16
          [] am = "ZeroPageX" -> 16 + x
          [] am = "Absolute" -> 528
          [] am = "AbsoluteX" -> 528 + x

InitShift ==
    \E pc \in AluEntry, opcode \in ShiftOpcodes, M \in ShiftOperands,
       a \in ShiftAccumulators, x \in ShiftX, c \in BOOLEAN :
        Start([CPUDefault EXCEPT !.pc = pc, !.a = a, !.x = x, !.p.c = c],
              [BusDefault EXCEPT
                  !.bytes = Put(LoadBytes(pc, <<opcode, 16, 2>>),
                                ShiftAddress(opcode, x), M)],
              [opcode |-> opcode, M |-> M, a |-> a, x |-> x, c |-> c])

NextShift == StepOnce

SpecShift == InitShift /\ [][NextShift]_vars

(* the byte the instruction is to store for operand M and carry-in c       *)
ShiftedByte(kind, M, c) ==
    CASE kind = "ASL" -> (2 * M) % 256
      [] kind = "LSR" -> M \div 2
      [] kind = "ROL" -> ((2 * M) % 256) + (IF c THEN 1 ELSE 0)
      [] kind = "ROR" -> (M \div 2) + (IF c THEN 128 ELSE 0)

ShiftedOut(kind, M) ==
    IF kind \in {"ASL", "ROL"} THEN M \div 128 ELSE M % 2

\* C32: ASL, LSR, ROL and ROR on a memory operand read-modify-write the
\* addressed byte: with M the byte at the effective address and c the carry
\* before, the byte stored back is (M<<1) mod 256 for ASL, M>>1 for LSR,
\* ((M<<1) mod 256) | c for ROL and (M>>1) | (c<<7) for ROR; C receives the
\* bit shifted out of M; N and Z reflect the stored byte; and the accumulator
\* is neither read nor changed.
C32_ShiftMemory ==
    (last.op = "step" /\ last.instr.op \in ShiftMnemonics
        /\ last.instr.am \in ModesRmw) =>
        LET stored == Get(bus.bytes, ShiftAddress(inp.opcode, inp.x))
        IN  /\ fail = StatusNone
            /\ stored = ShiftedByte(last.instr.op, inp.M, inp.c)
            /\ cpu.p.c = (ShiftedOut(last.instr.op, inp.M) = 1)
            /\ cpu.p.z = (stored = 0)
            /\ cpu.p.n = (stored >= 128)
            /\ cpu.a = inp.a

-----------------------------------------------------------------------------
(* Specification of ADC and SBC under the D flag: immediate and zero-page  *)
(* opcodes, accumulators and operands around the decimal digit boundaries, *)
(* either carry, D set or clear.                                           *)

DecimalBytes == {0, 1, 9, 10, 15, 16, 73, 80, 121, 128, 153, 154, 255}

InitDecimal ==
    \E pc \in AluEntry, zp \in AluZeroPage, opcode \in AdcOpcodes \cup SbcOpcodes,
       a \in DecimalBytes, m \in DecimalBytes, c \in BOOLEAN, d \in BOOLEAN :
        Start([CPUDefault EXCEPT !.pc = pc, !.a = a, !.p.c = c, !.p.d = d],
              [BusDefault EXCEPT
                  !.bytes = OperandImage(pc, opcode, opcode \in {105, 233},
                                         zp, m)],
              [opcode |-> opcode, a |-> a, m |-> m, c |-> c, d |-> d])

NextDecimal == StepOnce

SpecDecimal == InitDecimal /\ [][NextDecimal]_vars

(* fetch, decode and execute from machine m: the loop body as a function   *)
StepFrom(m) ==
    LET decoded(f, d) == process_instruction(f.m, d.instr, d.ticks)
        fetched(f) == decoded(f, map_byte_to_instruction(f.v))
    IN  fetched(fetch_instruction(m))

(* machine m with the D flag inverted                                      *)
FlipD(m) == [m EXCEPT !.cpu.p.d = ~@]

\* C33: for any two CPU/bus states that differ only in the D flag, executing
\* the same ADC or SBC instruction yields the same accumulator, the same N,
\* V, Z, C flags, the same PC and the same returned cycle count in both, and
\* leaves D unchanged in each.
C33_DecimalIgnored ==
    (last.op = "step" /\ last.instr.op \in {"ADC", "SBC"}) =>
        /\ fail = StatusNone
        /\ cpu.p.d = last.pre.cpu.p.d
        /\ StepFrom(FlipD(last.pre)).m = FlipD(Cur)
        /\ StepFrom(FlipD(last.pre)).ticks = last.ticks

C33_Witness ==
    /\ last.op = "step"
    /\ last.instr = [op |-> "ADC", am |-> "Immediate"]
    /\ inp.d = TRUE /\ inp.a = 9 /\ inp.m = 1 /\ inp.c = FALSE
    /\ cpu.a = 10
    /\ cpu.p.d = TRUE
    /\ StepFrom(FlipD(last.pre)).m.cpu.a = 10
    /\ StepFrom(FlipD(last.pre)).m.cpu.p.d = FALSE

-----------------------------------------------------------------------------
(* The earlier executor (src/src/computer.rs): Computer::adc_logic, applied *)
(* to every accumulator, operand and carry.                                *)

(* Computer::adc_logic: the carry is taken from addend_1 >= result         *)
ComputerAdcLogic(c, addend_1) ==
    LET addend_2 == c.a
        carry == IF c.p.c = TRUE THEN 1 ELSE 0
        result == WrappingAdd8(WrappingAdd8(addend_1, addend_2), carry)
        c1 == [c EXCEPT !.a = result,
                        !.p.c = (addend_1 >= result),
                        !.p.v = ~(BitAnd(BitAnd(BitXor(addend_1, result),
                                                BitXor(addend_2, result)),
                                         128) = 0)]
    IN  set_status_nz(c1, c1.a)

InitComputerAdc ==
    \E a \in Byte, m \in Byte, c \in BOOLEAN :
        Start([CPUDefault EXCEPT !.a = a, !.p.c = c], BusDefault,
              [a |-> a, m |-> m, c |-> c])

(* one call self.adc_logic(inp.m)                                          *)
ComputerAdcCall ==
    /\ last.op = "init"
    /\ cpu' = ComputerAdcLogic(cpu, inp.m)
    /\ last' = [op |-> "adc_logic", n |-> 1]
    /\ UNCHANGED <<bus, fail, overflow_checks, inp>>

NextComputerAdc == ComputerAdcCall

SpecComputerAdc == InitComputerAdc /\ [][NextComputerAdc]_vars

\* C34: Computer::adc_logic computes the ADC carry as unsigned overflow: for
\* every accumulator A, operand M and carry-in C, after the call the carry
\* flag is set exactly when A + M + C > 255 and the accumulator is
\* (A + M + C) mod 256.
C34_ComputerCarry ==
    last.op = "adc_logic" =>
        /\ cpu.p.c = (inp.a + inp.m + CarryIn > 255)
        /\ cpu.a = (inp.a + inp.m + CarryIn) % 256

-----------------------------------------------------------------------------
(* Specification of cycle accounting: every opcode byte, operands that do  *)
(* and do not cross a page, flags that take and skip every branch, two     *)
(* instructions in a row.                                                  *)

ClockEntry == {6 * 256}
ClockLo == {16, 240}
ClockHi == {2}
ClockIndex == {0, 16}
ClockStart == {0, 7}

InitClock ==
    \E pc \in ClockEntry, opcode \in Byte, lo \in ClockLo, hi \in ClockHi,
       i \in ClockIndex, f \in BOOLEAN, t \in ClockStart :
        Start([CPUDefault EXCEPT !.pc = pc, !.x = i, !.y = i, !.clock = t,
                                 !.p.n = f, !.p.v = f, !.p.z = f, !.p.c = f],
              [BusDefault EXCEPT !.bytes = LoadBytes(pc, <<opcode, lo, hi>>)],
              [opcode |-> opcode, lo |-> lo, i |-> i, f |-> f, clock |-> t])

NextClock == Step

SpecClock == InitClock /\ [][NextClock]_vars

\* C35: each call of process_instruction that completes increases cpu.clock
\* by exactly the value it returns, that value is at least the base cycle
\* count passed in and at most base + 2, and cpu.clock never decreases.
C35_ClockAccounting ==
    (last.op = "step" /\ fail = StatusNone) =>
        /\ cpu.clock = last.pre.cpu.clock + last.ticks
        /\ last.ticks >= last.minimum_ticks
        /\ last.ticks <= last.minimum_ticks + 2
        /\ cpu.clock >= last.pre.cpu.clock
        /\ cpu.clock >= inp.clock

C35_Witness ==
    /\ last.op = "step" /\ last.n = 1
    /\ fail = StatusNone
    /\ last.instr.am = "Relative"
    /\ inp.clock = 7
    /\ last.ticks = last.minimum_ticks + 2
    /\ cpu.clock = 7 + last.ticks

-----------------------------------------------------------------------------
(* Specification of the B flag: programs of three one-byte instructions    *)
(* that push and pull the status, run from the default status register     *)
(* over a stack page already holding bytes with bit 4 set.                 *)

FlagEntry == {6 * 256}
FlagOpcodes == {0, 8, 40, 64, 72, 56, 248}  \* BRK PHP PLP RTI PHA SEC SED
FlagFill == {255, 22}
FlagAccumulators == {255, 16}

InitFlag ==
    \E pc \in FlagEntry, o1 \in FlagOpcodes, o2 \in FlagOpcodes,
       o3 \in FlagOpcodes, fill \in FlagFill, a \in FlagAccumulators :
        Start([CPUDefault EXCEPT !.pc = pc, !.a = a],
              [BusDefault EXCEPT
                  !.bytes = LoadBytes(pc, <<o1, o2, o3>>)
                            @@ [k \in STACK_PAGE .. (STACK_PAGE + 255) |-> fill]],
              [program |-> <<o1, o2, o3>>, fill |-> fill, a |-> a])

NextFlag == BreakStep

SpecFlag == InitFlag /\ [][NextFlag]_vars

(* the byte most recently pushed: the one just above the stack pointer     *)
TopOfStack == Get(bus.bytes, STACK_PAGE + ((cpu.sp + 1) % 256))

\* C36: starting from a default status register, after any sequence of
\* instructions the B flag field is false; bit 4 of a status byte pushed by
\* PHP or BRK is set only by the explicit OR, never by the stored flag.
C36_BreakFlagClear ==
    /\ cpu.p.b = FALSE
    /\ BitAnd(to_byte(cpu.p), B) = 0
    /\ (last.op = "step" /\ fail = StatusNone
          /\ last.instr.op \in {"PHP", "BRK"}) =>
            /\ BitAnd(to_byte(last.pre.cpu.p), B) = 0
            /\ BitAnd(TopOfStack, B) = B

C36_Witness ==
    /\ last.op = "step" /\ last.n = 3
    /\ fail = StatusNone
    /\ inp.program = <<72, 40, 8>>
    /\ inp.a = 255
    /\ last.instr.op = "PHP"
    /\ last.pre.cpu.p.c = TRUE
    /\ cpu.p.b = FALSE
    /\ TopOfStack = 255

-----------------------------------------------------------------------------
(* PPUSTATUS under bus traffic (SpecBus).                                  *)

VBLANK_STATUS == 128

-----------------------------------------------------------------------------
(* Totality of bus accesses (SpecPpuAddr).                                 *)

\* C38: in every PPU state reachable through bus writes, a read or a write
\* at any 16-bit address completes without indexing outside an array; in
\* particular a $2007 access always indexes inside the $4000-byte video
\* memory, also after $2006 writes or $2007 increments have made the
\* combined PPU address $4000 or larger.
C38_BusTotal ==
    IsAccess => fail = StatusNone

-----------------------------------------------------------------------------
(* The per-frame accumulator at the head of the loop (SpecFrame).          *)

(* the machine right after the instruction of the last pass took its ticks *)
AfterInstruction == last.calls[1].post

\* C39: at the start of every iteration of the frame loop
\* time_since_last_frame < CPU_CYCLES_PER_FRAME (29780): whenever the
\* accumulator reaches the budget after an instruction it is reset to 0
\* before the next instruction, whether or not PPUCTRL's NMI-enable bit is
\* set, and after an NMI it equals the NMI's returned cycles.
C39_FrameBudget ==
    /\ CPU_CYCLES_PER_FRAME = 29780
    /\ fail = StatusNone => cpu.time_since_last_frame < CPU_CYCLES_PER_FRAME
    /\ (last.op = "frame" /\ fail = StatusNone) =>
          IF AfterInstruction.cpu.time_since_last_frame >= CPU_CYCLES_PER_FRAME
          THEN IF Bit(AfterInstruction.bus.ppu.ppu_ctrl, 7) = 1
               THEN /\ NmiCalls = {3}
                    /\ last.calls[3].pre.cpu.time_since_last_frame = 0
                    /\ cpu.time_since_last_frame = last.calls[3].ticks
               ELSE /\ NmiCalls = {}
                    /\ cpu.time_since_last_frame = 0
          ELSE cpu.time_since_last_frame =
                   AfterInstruction.cpu.time_since_last_frame

C39_Witness ==
    /\ last.op = "frame" /\ last.n = 3
    /\ fail = StatusNone
    /\ AfterInstruction.cpu.time_since_last_frame = CPU_CYCLES_PER_FRAME
    /\ Bit(AfterInstruction.bus.ppu.ppu_ctrl, 7) = 0
    /\ NmiCalls = {}
    /\ cpu.time_since_last_frame = 0

-----------------------------------------------------------------------------
(* Return of on_draw.  A pass with break = TRUE is the last pass of its    *)
(* call: the loop is left and request_redraw is called.  Under weak        *)
(* fairness the loop keeps taking passes while it can.                     *)

FairSpecFrame == SpecFrame /\ WF_vars(NextFrame)

(* the last pass met a frame boundary                                      *)
AtBoundary ==
    last.op = "frame"
        /\ AfterInstruction.cpu.time_since_last_frame >= CPU_CYCLES_PER_FRAME

(* the last pass left the loop: on_draw returned                           *)
Returned == last.op = "frame" /\ last.break

DrawReturn ==
    (last.op = "frame" /\ fail = StatusNone) =>
        /\ last.break <=>
              (AtBoundary /\ Bit(AfterInstruction.bus.ppu.ppu_ctrl, 7) = 1)
        /\ last.break =>
              /\ Len(last.calls) = 3
              /\ NmiCalls = {3}
              /\ RenderCalls = {2}
        /\ ~last.break =>
              /\ Len(last.calls) = 1
              /\ NmiCalls = {}
              /\ RenderCalls = {}

====
